---- MODULE Spec2Model ----
(***************************************************************************)
(* whatsapp-cli: the local message store (internal/store/store.go) and    *)
(* the media download command (internal/commands/commands.go).            *)
(*                                                                         *)
(* Text values (Go strings, SQLite TEXT) and byte slices (SQLite BLOB)     *)
(* are sequences of one-character strings, so that strings.TrimSpace and   *)
(* length() are computed and not assumed.  SQL NULL (and a nil []byte,     *)
(* which the driver binds as NULL) is the value NULL below; a NULL         *)
(* TIMESTAMP is NULLTIME.  time.Time values are the numbers 1..MaxTime.    *)
(***************************************************************************)
EXTENDS Integers, Sequences, FiniteSets, TLC

VARIABLES
    chats,      \* table chats: jid -> [name, last_message_time]
    messages,   \* table messages: <<id, chat_jid>> -> row
    call,       \* the operation executed last: name, arguments, outcome
    prev,       \* the operation executed before it
    pre,        \* the two tables as they were before the last operation
    files,      \* the destination directory: path -> bytes of the file
    dl,         \* the DownloadMediaToFile call in progress
    pool,       \* the mediaDownloadWorker of Sync: context, queue, goroutines
    sync,       \* the Sync call: its position, context, handler and count
    listed,     \* the list command executed last: name, arguments, JSON result
    proc,       \* the process main ran last: arguments, output, exit status
    handled,    \* the event handler or SendMessage run last: its calls in order
    resolution  \* the ResolveChatName call made last: its inputs and the name

vars == <<chats, messages, call, prev, pre, files, dl, pool, sync, listed, proc, handled, resolution>>

\* what the operations of the store and the commands over it leave alone
beyondStore == <<files, dl, pool, sync, listed, proc, handled, resolution>>

(***************************************************************************)
(* Values                                                                  *)
(***************************************************************************)
NULL == <<"NULL">>
NULLTIME == 0
EMPTY == <<>>
nil == <<"nil">>

MaxTime == 3
MaxLen == 2
IntBits == 4

Times == 1..MaxTime

JidA == <<"a", "@", "s">>
JidB == <<"b", "@", "s">>
JIDs == {JidA, JidB}

\* a nil error
NoErr == "ok"

\* no operation has run yet
NoCall == [op |-> "none", args |-> <<>>, err |-> NoErr]

(***************************************************************************)
(* Inputs                                                                  *)
(***************************************************************************)
\* a message as Sync and SendMessage hand it to StoreMessage
Msg(id, chatJID, d) ==
    [id |-> id, chatJID |-> chatJID, sender |-> d.sender, content |-> d.content,
     timestamp |-> d.timestamp, isFromMe |-> d.isFromMe, mediaType |-> d.mediaType,
     filename |-> d.filename, url |-> d.url, directPath |-> d.directPath,
     mimeType |-> d.mimeType, mediaKey |-> d.mediaKey, fileSHA256 |-> d.fileSHA256,
     fileEncSHA256 |-> d.fileEncSHA256, fileLength |-> d.fileLength]

MsgM == <<"m">>
MsgN == <<"n">>
MsgO == <<"o">>

NameAlice == <<"A", "l">>
NameBob == <<"B", "o">>

Image == <<"i", "m", "a", "g", "e">>
Document == <<"d", "o", "c", "u", "m", "e", "n", "t">>

MimeJpeg == <<"i", "m", "a", "g", "e", "/", "j", "p", "e", "g">>
MimePdf == <<"a", "p", "p", "l", "i", "c", "a", "t", "i", "o", "n", "/", "p", "d", "f">>

KeyOne == <<"k", "1">>
KeyTwo == <<"k", "2">>
ShaOne == <<"h", "1">>
ShaTwo == <<"h", "2">>
EncOne == <<"e", "1">>
EncTwo == <<"e", "2">>

PathOne == <<"/", "x">>
PathTwo == <<"/", "y">>

\* a uint64 length that does not fit the signed column
HugeLength == 2 ^ (IntBits - 1)

\* a message without a media descriptor (commands.go:586-592, 163-164)
TextOnly ==
    [sender |-> <<"s">>, content |-> <<"h", "i">>, timestamp |-> 1, isFromMe |-> FALSE,
     mediaType |-> EMPTY, filename |-> EMPTY, url |-> EMPTY, directPath |-> EMPTY,
     mimeType |-> EMPTY, mediaKey |-> NULL, fileSHA256 |-> NULL, fileEncSHA256 |-> NULL,
     fileLength |-> 0]

\* an image as a live event delivers it: everything but a file name
LiveImage ==
    [sender |-> <<"s">>, content |-> EMPTY, timestamp |-> 2, isFromMe |-> FALSE,
     mediaType |-> Image, filename |-> EMPTY, url |-> <<"u">>, directPath |-> <<"/", "p">>,
     mimeType |-> MimeJpeg, mediaKey |-> KeyOne, fileSHA256 |-> ShaOne,
     fileEncSHA256 |-> EncOne, fileLength |-> MaxLen]

\* partial records: a media key without a file name, a file name with an
\* empty (non-nil) media key
KeyOnly ==
    [TextOnly EXCEPT !.mediaType = Image, !.mediaKey = KeyOne, !.timestamp = 2]

NameOnly ==
    [TextOnly EXCEPT !.mediaType = Image, !.filename = <<"f">>, !.mediaKey = EMPTY,
                     !.timestamp = 2]

\* a document sent by the account itself, every field differing from LiveImage
OwnDocument ==
    [sender |-> <<"m", "e">>, content |-> <<"c">>, timestamp |-> 3, isFromMe |-> TRUE,
     mediaType |-> Document, filename |-> <<"g">>, url |-> <<"v">>,
     directPath |-> <<"/", "q">>, mimeType |-> MimePdf, mediaKey |-> KeyTwo,
     fileSHA256 |-> ShaTwo, fileEncSHA256 |-> EncTwo, fileLength |-> 1]

HugeImage == [LiveImage EXCEPT !.fileLength = HugeLength]

Descriptors == {TextOnly, LiveImage, KeyOnly, NameOnly, OwnDocument, HugeImage}

(***************************************************************************)
(* Go string functions, on sequences of characters                         *)
(***************************************************************************)
\* unicode.IsSpace, for the characters of the model's alphabet
IsSpace(c) == c \in {" ", "\t", "\n", "\r"}

\* strings.TrimSpace: what lies between the first and the last character
\* that is not white space
TrimSpace(s) ==
    LET kept == {i \in 1..Len(s) : ~IsSpace(s[i])}
    IN  IF kept = {} THEN <<>>
        ELSE SubSeq(s, CHOOSE i \in kept : \A j \in kept : i <= j,
                       CHOOSE i \in kept : \A j \in kept : i >= j)

Upper == <<"A", "B", "C", "D", "E", "F", "G", "H", "I", "J", "K", "L", "M", "N", "O", "P", "Q", "R", "S", "T", "U", "V", "W", "X", "Y", "Z">>
Lower == <<"a", "b", "c", "d", "e", "f", "g", "h", "i", "j", "k", "l", "m", "n", "o", "p", "q", "r", "s", "t", "u", "v", "w", "x", "y", "z">>

\* strings.ToLower
ToLower(s) ==
    [i \in 1..Len(s) |->
        IF \E j \in 1..Len(Upper) : Upper[j] = s[i]
        THEN Lower[CHOOSE j \in 1..Len(Upper) : Upper[j] = s[i]]
        ELSE s[i]]

\* strings.HasSuffix
HasSuffix(s, suffix) ==
    /\ Len(s) >= Len(suffix)
    /\ SubSeq(s, Len(s) - Len(suffix) + 1, Len(s)) = suffix

\* strings.ReplaceAll(s, "..", "_"): leftmost, non-overlapping
\* of a run of dots every pair, from the left, becomes one "_"
DotsBefore(s, i) ==
    LET others == {j \in 1 .. (i - 1) : s[j] # "."}
    IN  IF others = {} THEN i - 1
        ELSE i - 1 - (CHOOSE j \in others : \A k \in others : k <= j)

ReplaceDotDot(s) ==
    SelectSeq([i \in 1 .. Len(s) |->
                  IF s[i] # "." THEN s[i]
                  ELSE IF DotsBefore(s, i) % 2 = 1 THEN "second"
                  ELSE IF i < Len(s) /\ s[i + 1] = "." THEN "_"
                  ELSE "."],
              LAMBDA c : c # "second")

\* the last index of character c in s, 0 when it is absent
LastIndex(s, c) ==
    IF \E i \in 1..Len(s) : s[i] = c
    THEN CHOOSE i \in 1..Len(s) : s[i] = c /\ \A j \in (i + 1)..Len(s) : s[j] # c
    ELSE 0

PathSeparator == "/"

\* filepath.Ext: the suffix from the last dot of the last path element
Ext(path) ==
    LET dot == LastIndex(path, ".")
    IN  IF dot > 0 /\ dot > LastIndex(path, PathSeparator)
        THEN SubSeq(path, dot, Len(path)) ELSE <<>>

\* the elements of a path between its separators
RECURSIVE SplitPath(_)
SplitPath(path) ==
    IF \A i \in 1..Len(path) : path[i] # PathSeparator THEN <<path>>
    ELSE LET i == CHOOSE j \in 1..Len(path) :
                      path[j] = PathSeparator /\ \A k \in 1..(j - 1) : path[k] # PathSeparator
         IN  <<SubSeq(path, 1, i - 1)>> \o SplitPath(SubSeq(path, i + 1, Len(path)))

filepathIsAbs(path) == path # <<>> /\ path[1] = PathSeparator

\* filepath.Clean: drops empty and "." elements, resolves ".." against the
\* element before it, keeps a leading separator
RECURSIVE CleanElems(_, _, _)
CleanElems(elems, done, rooted) ==
    IF elems = <<>> THEN done
    ELSE LET e == Head(elems)
             rest == Tail(elems)
         IN  IF e = <<>> \/ e = <<".">> THEN CleanElems(rest, done, rooted)
             ELSE IF e = <<".", ".">>
             THEN IF done # <<>> /\ done[Len(done)] # <<".", ".">>
                  THEN CleanElems(rest, SubSeq(done, 1, Len(done) - 1), rooted)
                  ELSE IF rooted THEN CleanElems(rest, done, rooted)
                  ELSE CleanElems(rest, Append(done, e), rooted)
             ELSE CleanElems(rest, Append(done, e), rooted)

RECURSIVE JoinElems(_)
JoinElems(elems) ==
    IF elems = <<>> THEN <<>>
    ELSE IF Len(elems) = 1 THEN elems[1]
    ELSE elems[1] \o <<PathSeparator>> \o JoinElems(Tail(elems))

\* the cleaned elements put together again: "/" in front of a rooted
\* path, "." for an empty relative one
Rebuild(rooted, body) ==
    IF rooted THEN <<PathSeparator>> \o body
    ELSE IF body = <<>> THEN <<".">> ELSE body

filepathClean(path) ==
    Rebuild(filepathIsAbs(path),
            JoinElems(CleanElems(SplitPath(path), <<>>, filepathIsAbs(path))))

\* strings.Join of the non-empty ones of two elements
JoinNonEmpty(a, b) ==
    IF a = <<>> THEN b
    ELSE IF b = <<>> THEN a
    ELSE a \o <<PathSeparator>> \o b

\* filepath.Join of two elements: empty elements are ignored, the result
\* is cleaned
filepathJoin(a, b) ==
    IF a = <<>> /\ b = <<>> THEN <<>> ELSE filepathClean(JoinNonEmpty(a, b))

\* the working directory of the process
Cwd == <<"/", "w">>

\* filepath.Abs
filepathAbs(path) ==
    filepathClean(IF filepathIsAbs(path) THEN path ELSE JoinNonEmpty(Cwd, path))

(***************************************************************************)
(* SQL helpers used by the statements of store.go                          *)
(***************************************************************************)
NULLIF(x, y) == IF x = y THEN NULL ELSE x

COALESCE(x, y) == IF x # NULL THEN x ELSE y

\* excluded.b IS NOT NULL AND length(excluded.b) > 0
BlobPresent(b) == b # NULL /\ Len(b) > 0

\* int64(u) of a uint64 u, at the model's word width IntBits
ToInt64(u) == IF u < 2 ^ (IntBits - 1) THEN u ELSE u - 2 ^ IntBits

\* store.go:205-208
intFileLength(fileLength) == IF fileLength > 0 THEN ToInt64(fileLength) ELSE 0

(***************************************************************************)
(* StoreChat: INSERT ... ON CONFLICT(jid) DO UPDATE                        *)
(***************************************************************************)
\* a variant that takes the incoming name whatever it is
ChatNameOnConflict_TakeExcluded(jid, old, excluded) == excluded

\* the CASE expression that decides the name of an existing chat row
ChatNameOnConflict(jid, old, excluded) ==
    IF excluded # NULL /\ excluded # EMPTY
       /\ (excluded # jid \/ old = NULL \/ old = EMPTY \/ old = jid)
    THEN excluded
    ELSE IF old = NULL \/ old = EMPTY THEN excluded
    ELSE old

\* a variant that keeps the later of the two times
ChatTimeOnConflict_KeepLatest(old, excluded) == IF excluded > old THEN excluded ELSE old

\* last_message_time = excluded.last_message_time
ChatTimeOnConflict(old, excluded) == excluded

StoreChatRows(chts, jid, name, lastMessageTime) ==
    IF jid \in DOMAIN chts
    THEN [chts EXCEPT ![jid] =
            [name |-> ChatNameOnConflict(jid, chts[jid].name, name),
             last_message_time |->
                 ChatTimeOnConflict(chts[jid].last_message_time, lastMessageTime)]]
    ELSE [j \in DOMAIN chts \cup {jid} |->
            IF j = jid
            THEN [name |-> name, last_message_time |-> lastMessageTime]
            ELSE chts[j]]

(***************************************************************************)
(* StoreMessage: INSERT ... ON CONFLICT(id, chat_jid) DO UPDATE            *)
(***************************************************************************)
MsgKey(m) == <<m.id, m.chatJID>>

\* the VALUES (...) row of the INSERT; local_path and downloaded_at are not
\* in the column list and default to NULL
ExcludedRow(m) ==
    [sender |-> m.sender,
     content |-> m.content,
     timestamp |-> m.timestamp,
     filename |-> m.filename,
     url |-> m.url,
     is_from_me |-> m.isFromMe,
     media_type |-> m.mediaType,
     direct_path |-> m.directPath,
     mime_type |-> m.mimeType,
     media_key |-> m.mediaKey,
     file_sha256 |-> m.fileSHA256,
     file_enc_sha256 |-> m.fileEncSHA256,
     file_length |-> intFileLength(m.fileLength),
     local_path |-> NULL,
     downloaded_at |-> NULLTIME]

\* a variant whose filename is overwritten like sender or content
MessageOnConflict_OverwriteFilename(old, excluded) ==
    [old EXCEPT
        !.sender = excluded.sender,
        !.content = excluded.content,
        !.timestamp = excluded.timestamp,
        !.is_from_me = excluded.is_from_me,
        !.media_type = excluded.media_type,
        !.filename = excluded.filename,
        !.url = excluded.url,
        !.direct_path = COALESCE(NULLIF(excluded.direct_path, EMPTY), old.direct_path),
        !.mime_type = COALESCE(NULLIF(excluded.mime_type, EMPTY), old.mime_type),
        !.media_key = IF BlobPresent(excluded.media_key)
                      THEN excluded.media_key ELSE old.media_key,
        !.file_sha256 = IF BlobPresent(excluded.file_sha256)
                        THEN excluded.file_sha256 ELSE old.file_sha256,
        !.file_enc_sha256 = IF BlobPresent(excluded.file_enc_sha256)
                            THEN excluded.file_enc_sha256 ELSE old.file_enc_sha256,
        !.file_length = IF excluded.file_length > 0
                        THEN excluded.file_length ELSE old.file_length]

\* a variant that replaces the row (INSERT OR REPLACE)
MessageOnConflict_ReplaceRow(old, excluded) == excluded

\* a variant that takes the row for one not downloaded yet
MessageOnConflict_ResetDownload(old, excluded) ==
    [old EXCEPT
        !.sender = excluded.sender,
        !.content = excluded.content,
        !.timestamp = excluded.timestamp,
        !.is_from_me = excluded.is_from_me,
        !.media_type = excluded.media_type,
        !.filename = COALESCE(NULLIF(excluded.filename, EMPTY), old.filename),
        !.url = excluded.url,
        !.direct_path = COALESCE(NULLIF(excluded.direct_path, EMPTY), old.direct_path),
        !.mime_type = COALESCE(NULLIF(excluded.mime_type, EMPTY), old.mime_type),
        !.media_key = IF BlobPresent(excluded.media_key)
                      THEN excluded.media_key ELSE old.media_key,
        !.file_sha256 = IF BlobPresent(excluded.file_sha256)
                        THEN excluded.file_sha256 ELSE old.file_sha256,
        !.file_enc_sha256 = IF BlobPresent(excluded.file_enc_sha256)
                            THEN excluded.file_enc_sha256 ELSE old.file_enc_sha256,
        !.file_length = IF excluded.file_length > 0
                        THEN excluded.file_length ELSE old.file_length,
        !.local_path = NULL,
        !.downloaded_at = NULLTIME]

\* the DO UPDATE SET list; columns it does not name keep their value
MessageOnConflict(old, excluded) ==
    [old EXCEPT
        !.sender = excluded.sender,
        !.content = excluded.content,
        !.timestamp = excluded.timestamp,
        !.is_from_me = excluded.is_from_me,
        !.media_type = excluded.media_type,
        !.filename = COALESCE(NULLIF(excluded.filename, EMPTY), old.filename),
        !.url = excluded.url,
        !.direct_path = COALESCE(NULLIF(excluded.direct_path, EMPTY), old.direct_path),
        !.mime_type = COALESCE(NULLIF(excluded.mime_type, EMPTY), old.mime_type),
        !.media_key = IF BlobPresent(excluded.media_key)
                      THEN excluded.media_key ELSE old.media_key,
        !.file_sha256 = IF BlobPresent(excluded.file_sha256)
                        THEN excluded.file_sha256 ELSE old.file_sha256,
        !.file_enc_sha256 = IF BlobPresent(excluded.file_enc_sha256)
                            THEN excluded.file_enc_sha256 ELSE old.file_enc_sha256,
        !.file_length = IF excluded.file_length > 0
                        THEN excluded.file_length ELSE old.file_length]

ErrForeignKey == "FOREIGN KEY constraint failed"
ErrAlreadyExists == "UNIQUE constraint failed: messages.id, messages.chat_jid"

\* a variant without the ON CONFLICT clause
StoreMessageErr_PlainInsert(chts, msgs, m) ==
    IF MsgKey(m) \in DOMAIN msgs THEN ErrAlreadyExists
    ELSE IF m.chatJID \notin DOMAIN chts THEN ErrForeignKey
    ELSE NoErr

\* a variant of a database opened without foreign_keys=on
StoreMessageErr_NoForeignKey(chts, msgs, m) == NoErr

\* the error db.Exec returns: the upsert takes the conflict branch for an
\* existing key; a new row needs its chat row (foreign_keys=on)
StoreMessageErr(chts, msgs, m) ==
    IF MsgKey(m) \in DOMAIN msgs THEN NoErr
    ELSE IF m.chatJID \notin DOMAIN chts THEN ErrForeignKey
    ELSE NoErr

StoreMessageRows(chts, msgs, m) ==
    IF StoreMessageErr(chts, msgs, m) # NoErr THEN msgs
    ELSE IF MsgKey(m) \in DOMAIN msgs
    THEN [msgs EXCEPT ![MsgKey(m)] = MessageOnConflict(msgs[MsgKey(m)], ExcludedRow(m))]
    ELSE [k \in DOMAIN msgs \cup {MsgKey(m)} |->
            IF k = MsgKey(m) THEN ExcludedRow(m) ELSE msgs[k]]

(***************************************************************************)
(* MarkMediaDownloaded: UPDATE messages SET local_path, downloaded_at      *)
(***************************************************************************)
\* a variant whose WHERE clause names the ID only
MarkMediaDownloadedRows_AnyChat(msgs, id, chatJID, localPath, downloadedAt) ==
    [k \in DOMAIN msgs |->
        IF k[1] = id
        THEN [msgs[k] EXCEPT !.local_path = localPath, !.downloaded_at = downloadedAt]
        ELSE msgs[k]]

MarkMediaDownloadedRows(msgs, id, chatJID, localPath, downloadedAt) ==
    [k \in DOMAIN msgs |->
        IF k = <<id, chatJID>>
        THEN [msgs[k] EXCEPT !.local_path = localPath, !.downloaded_at = downloadedAt]
        ELSE msgs[k]]

(***************************************************************************)
(* GetMessageForDownload                                                   *)
(***************************************************************************)
ErrNoRows == "sql: no rows in result set"
ErrMultiple == "multiple messages found with ID %s; specify chat JID"

\* len() of a []byte scanned from a BLOB column (NULL scans to nil)
BlobLen(b) == IF b = NULL THEN 0 ELSE Len(b)

\* MessageDownloadInfo{}
ZeroInfo ==
    [ID |-> EMPTY, ChatJID |-> EMPTY, ChatName |-> nil, MediaType |-> EMPTY,
     Filename |-> EMPTY, DirectPath |-> EMPTY, MimeType |-> EMPTY, URL |-> EMPTY,
     MediaKey |-> NULL, FileSHA256 |-> NULL, FileEncSHA256 |-> NULL, FileLength |-> 0,
     LocalPath |-> nil, DownloadedAt |-> NULLTIME, Sender |-> EMPTY, Content |-> EMPTY,
     MessageTime |-> NULLTIME, IsFromMe |-> FALSE]

\* the keys of the rows the SELECT matches: m.id = ? [AND m.chat_jid = ?]
SelectedKeys(msgs, id, chatJID) ==
    {k \in DOMAIN msgs : k[1] = id /\ (chatJID = nil \/ k[2] = chatJID)}

\* rows.Scan of one row of messages LEFT JOIN chats
ScanInfo(chts, msgs, k) ==
    [ID |-> k[1],
     ChatJID |-> k[2],
     ChatName |-> IF k[2] \in DOMAIN chts THEN chts[k[2]].name ELSE nil,
     MediaType |-> msgs[k].media_type,
     Filename |-> msgs[k].filename,
     DirectPath |-> msgs[k].direct_path,
     MimeType |-> msgs[k].mime_type,
     URL |-> msgs[k].url,
     MediaKey |-> msgs[k].media_key,
     FileSHA256 |-> msgs[k].file_sha256,
     FileEncSHA256 |-> msgs[k].file_enc_sha256,
     FileLength |-> IF msgs[k].file_length > 0 THEN msgs[k].file_length ELSE 0,
     LocalPath |-> IF msgs[k].local_path # NULL THEN msgs[k].local_path ELSE nil,
     DownloadedAt |-> msgs[k].downloaded_at,
     Sender |-> msgs[k].sender,
     Content |-> msgs[k].content,
     MessageTime |-> msgs[k].timestamp,
     IsFromMe |-> msgs[k].is_from_me]

\* a variant without the check for several rows
GetMessageForDownloadResult_FirstRow(chts, msgs, id, chatJID) ==
    LET keys == SelectedKeys(msgs, id, chatJID)
    IN  IF keys = {} THEN [err |-> ErrNoRows, info |-> ZeroInfo]
        ELSE [err |-> NoErr, info |-> ScanInfo(chts, msgs, CHOOSE k \in keys : TRUE)]

\* what GetMessageForDownload returns: infos[0] is the only row whenever
\* it is returned, the key being (id, chat_jid)
GetMessageForDownloadResult(chts, msgs, id, chatJID) ==
    LET keys == SelectedKeys(msgs, id, chatJID)
    IN  IF keys = {} THEN [err |-> ErrNoRows, info |-> ZeroInfo]
        ELSE IF Cardinality(keys) > 1 /\ chatJID = nil
        THEN [err |-> ErrMultiple, info |-> ZeroInfo]
        ELSE [err |-> NoErr, info |-> ScanInfo(chts, msgs, CHOOSE k \in keys : TRUE)]

(***************************************************************************)
(* resolveOutputPath and its helpers                                       *)
(***************************************************************************)
\* the absolute store directory main hands to NewApp
StoreDir == <<"/", "s">>

\* pathReplacer
Replaced == {"/", "\\", ":", "@", "?", "*", "<", ">", "|"}

pathReplace(str) == [i \in 1..Len(str) |-> IF str[i] \in Replaced THEN "_" ELSE str[i]]

sanitizeSegment(seg) ==
    IF TrimSpace(seg) = <<>> THEN <<"u", "n", "k", "n", "o", "w", "n">>
    ELSE ReplaceDotDot(pathReplace(TrimSpace(seg)))

maxFilenameLen == 200

\* strings.ReplaceAll(name, string(os.PathSeparator), "_")
ReplaceSeparator(str) == [i \in 1..Len(str) |-> IF str[i] = PathSeparator THEN "_" ELSE str[i]]

\* the truncation of sanitizeFilename, which keeps a short extension
truncate(name, ext) ==
    IF Len(name) > maxFilenameLen
    THEN IF Len(ext) < 20 /\ Len(ext) > 0
         THEN SubSeq(name, 1, maxFilenameLen - Len(ext)) \o ext
         ELSE SubSeq(name, 1, maxFilenameLen)
    ELSE name

\* the replacements of sanitizeFilename, then the truncation
replaceAndTruncate(name) == truncate(name, Ext(name))

sanitizeFilename(name) ==
    IF TrimSpace(name) = <<>> THEN <<"f", "i", "l", "e">>
    ELSE replaceAndTruncate(ReplaceDotDot(ReplaceSeparator(pathReplace(TrimSpace(name)))))

\* mime.ExtensionsByType, from the table built into the Go library
ExtensionsByType(mimeType) ==
    IF mimeType = MimeJpeg THEN <<<<".", "j", "p", "e", "g">>, <<".", "j", "p", "g">>>>
    ELSE IF mimeType = MimePdf THEN <<<<".", "p", "d", "f">>>>
    ELSE <<>>

\* the first extension of a list that is kept: ".jpe" reads ".jpg"
RECURSIVE FirstExtension(_)
FirstExtension(exts) ==
    IF exts = <<>> THEN <<>>
    ELSE IF Head(exts) = <<".", "j", "p", "e">> THEN <<".", "j", "p", "g">>
    ELSE IF Head(exts) # <<>> THEN Head(exts)
    ELSE FirstExtension(Tail(exts))

\* the switch on the MIME type, for a type the library has no extension for
extensionOrDefault(mt, ext) ==
    IF mt = <<>> THEN <<>>
        ELSE IF ext # <<>>
        THEN ext
        ELSE IF mt = <<"i", "m", "a", "g", "e", "/", "j", "p", "e", "g">> THEN <<".", "j", "p", "g">>
        ELSE IF mt = <<"i", "m", "a", "g", "e", "/", "p", "n", "g">> THEN <<".", "p", "n", "g">>
        ELSE IF mt = <<"i", "m", "a", "g", "e", "/", "w", "e", "b", "p">> THEN <<".", "w", "e", "b", "p">>
        ELSE IF mt = <<"v", "i", "d", "e", "o", "/", "m", "p", "4">> THEN <<".", "m", "p", "4">>
        ELSE IF mt = <<"a", "u", "d", "i", "o", "/", "o", "g", "g">> THEN <<".", "o", "g", "g">>
        ELSE IF mt = <<"a", "u", "d", "i", "o", "/", "m", "p", "e", "g">> THEN <<".", "m", "p", "3">>
        ELSE IF mt = <<"a", "p", "p", "l", "i", "c", "a", "t", "i", "o", "n", "/", "p", "d", "f">> THEN <<".", "p", "d", "f">>
        ELSE <<>>

\* the type in lower case, then its extension
extensionForLower(mt) == extensionOrDefault(mt, FirstExtension(ExtensionsByType(mt)))

extensionForMime(mimeType) == extensionForLower(ToLower(TrimSpace(mimeType)))

\* the switch on the media type, for a MIME type without an extension
filenameForType(id, mediaType) ==
    IF mediaType = <<"i", "m", "a", "g", "e">> THEN id \o <<".", "j", "p", "g">>
    ELSE IF mediaType = <<"v", "i", "d", "e", "o">> THEN id \o <<".", "m", "p", "4">>
    ELSE IF mediaType = <<"a", "u", "d", "i", "o">> THEN id \o <<".", "o", "g", "g">>
    ELSE id

\* the name built from the ID when the record carries no file name
filenameFromID(info, ext) ==
    IF ext # <<>> THEN info.ID \o ext
    ELSE filenameForType(info.ID, ToLower(TrimSpace(info.MediaType)))

filenameFor(info) ==
    IF TrimSpace(info.Filename) # <<>> THEN TrimSpace(info.Filename)
    ELSE filenameFromID(info, extensionForMime(info.MimeType))

\* isDir: os.Stat finds a directory at the requested path
resolveRequested(cleaned, filename, isDir) ==
    IF isDir \/ HasSuffix(cleaned, <<PathSeparator>>)
    THEN filepathJoin(cleaned, filename)
    ELSE cleaned

\* <store>/media/<chat>/<message>[/<media type>]
defaultDir(chatDir, mediaType) ==
    IF mediaType # <<>> THEN filepathJoin(chatDir, sanitizeSegment(mediaType)) ELSE chatDir

resolveWithName(info, requested, isDir, filename) ==
    IF TrimSpace(requested) # <<>>
    THEN resolveRequested(IF filepathIsAbs(requested) THEN requested
                          ELSE filepathAbs(requested),
                          filename, isDir)
    ELSE filepathJoin(
             filepathAbs(
                 defaultDir(
                     filepathJoin(filepathJoin(filepathJoin(StoreDir, <<"m", "e", "d", "i", "a">>),
                                               sanitizeSegment(info.ChatJID)),
                                  sanitizeSegment(info.ID)),
                     info.MediaType)),
             filename)

\* if filename == "" { filename = "file" }
orFile(filename) == IF filename = <<>> THEN <<"f", "i", "l", "e">> ELSE filename

resolveOutputPath(info, requested, isDir) ==
    resolveWithName(info, requested, isDir, orFile(sanitizeFilename(filenameFor(info))))

(***************************************************************************)
(* DownloadMedia and downloadMediaAndPersist                               *)
(***************************************************************************)
ErrRequired == "message ID is required"
ErrNotFound == "message %s not found"
ErrNoMedia == "message %s has no downloadable media"
ErrMkdir == "failed to create destination directory: %w"
ErrDownload == "media download failed"

\* a variant that does not trim the message ID
CleanMessageID_Untrimmed(messageID) == messageID

\* messageID = strings.TrimSpace(messageID)
CleanMessageID(messageID) == TrimSpace(messageID)

\* a variant that looks at the direct path and the media key only
NoDownloadableMedia_IgnoringType(info) ==
    TrimSpace(info.DirectPath) = <<>> \/ BlobLen(info.MediaKey) = 0

\* the gate of commands.go:188
NoDownloadableMedia(info) ==
    \/ TrimSpace(info.MediaType) = <<>>
    \/ TrimSpace(info.DirectPath) = <<>>
    \/ BlobLen(info.MediaKey) = 0

ErrDirectPathEmpty == "media direct path is empty"
ErrUnsupportedType == "unsupported media type: %s"

\* mediaTypeFromString accepts these, in any case and with blanks around
SupportedTypes ==
    {<<"i", "m", "a", "g", "e">>, <<"v", "i", "d", "e", "o">>, <<"a", "u", "d", "i", "o">>,
     <<"d", "o", "c", "u", "m", "e", "n", "t">>, <<"s", "t", "i", "c", "k", "e", "r">>}

mediaTypeSupported(mediaType) == ToLower(TrimSpace(mediaType)) \in SupportedTypes

\* what a.mediaDownloader, downloadMediaWithClient unless a test replaced
\* it, returns: DownloadMediaToFile refuses a blank direct path and a media
\* type mediaTypeFromString does not know before it fetches anything;
\* fails stands for a failure of Connect, of the fetch or of a later step
downloaderError(info, fails) ==
    IF TrimSpace(info.DirectPath) = <<>> THEN ErrDirectPathEmpty
    ELSE IF ~mediaTypeSupported(info.MediaType) THEN ErrUnsupportedType
    ELSE IF fails THEN ErrDownload
    ELSE NoErr

\* downloadMediaAndPersist from os.MkdirAll on: the collaborators it
\* invokes, in order, the error it returns and the messages table it
\* leaves.  env holds what the file system, the downloader and the clock
\* answer.
\* a variant that records the path whatever the downloader returned
persistAt_MarkAlways(msgs, info, finalPath, env) ==
    IF env.mkdirFails
    THEN [messages |-> msgs, err |-> ErrMkdir, path |-> nil, effects |-> <<"MkdirAll">>,
          downloaded |-> FALSE]
    ELSE [messages |-> MarkMediaDownloadedRows(msgs, info.ID, info.ChatJID,
                                               finalPath, MaxTime),
          err |-> IF env.downloadFails THEN ErrDownload ELSE NoErr,
          path |-> finalPath,
          effects |-> <<"MkdirAll", "mediaDownloader", "MarkMediaDownloaded">>,
          downloaded |-> ~env.downloadFails]

persistAt(msgs, info, finalPath, env) ==
    IF env.mkdirFails
    THEN [messages |-> msgs, err |-> ErrMkdir, path |-> nil, effects |-> <<"MkdirAll">>,
          downloaded |-> FALSE]
    ELSE IF downloaderError(info, env.downloadFails) # NoErr
    THEN [messages |-> msgs, err |-> downloaderError(info, env.downloadFails), path |-> nil,
          effects |-> <<"MkdirAll", "mediaDownloader">>, downloaded |-> FALSE]
    ELSE [messages |-> MarkMediaDownloadedRows(msgs, info.ID, info.ChatJID,
                                               finalPath, env.now),
          err |-> NoErr,
          path |-> finalPath,
          effects |-> <<"MkdirAll", "mediaDownloader", "MarkMediaDownloaded">>,
          downloaded |-> TRUE]

downloadMediaAndPersist(msgs, info, requestedPath, env) ==
    persistAt(msgs, info, resolveOutputPath(info, requestedPath, env.isDir), env)

\* a DownloadMedia that returns after its lookup
failAfterLookup(msgs, err, info) ==
    [messages |-> msgs, err |-> err, path |-> nil, info |-> info,
     effects |-> <<"GetMessageForDownload">>, downloaded |-> FALSE]

\* a DownloadMedia that reached downloadMediaAndPersist
afterPersist(info, done) ==
    [messages |-> done.messages, err |-> done.err, path |-> done.path, info |-> info,
     effects |-> <<"GetMessageForDownload">> \o done.effects,
     downloaded |-> done.downloaded]

\* DownloadMedia from the answer of GetMessageForDownload on
afterLookup(msgs, got, outputPath, env) ==
    IF got.err = ErrNoRows THEN failAfterLookup(msgs, ErrNotFound, ZeroInfo)
    ELSE IF got.err # NoErr THEN failAfterLookup(msgs, got.err, ZeroInfo)
    ELSE IF NoDownloadableMedia(got.info) THEN failAfterLookup(msgs, ErrNoMedia, got.info)
    ELSE afterPersist(got.info, downloadMediaAndPersist(msgs, got.info, outputPath, env))

\* DownloadMedia: the error of its JSON result ("ok" for success:true), the
\* store and client operations it invoked and the messages table it leaves
DownloadMediaResult(chts, msgs, messageID, chatJID, outputPath, env) ==
    IF CleanMessageID(messageID) = <<>>
    THEN [messages |-> msgs, err |-> ErrRequired, path |-> nil, info |-> ZeroInfo,
          effects |-> <<>>, downloaded |-> FALSE]
    ELSE afterLookup(msgs,
                     GetMessageForDownloadResult(chts, msgs, CleanMessageID(messageID),
                                                 chatJID),
                     outputPath, env)

(***************************************************************************)
(* processMediaJob: what a worker of the pool does with one job            *)
(***************************************************************************)
\* a processMediaJob that returns nil after its lookup
skipAfterLookup(msgs, info) ==
    [messages |-> msgs, err |-> NoErr, path |-> nil, info |-> info,
     effects |-> <<"GetMessageForDownload">>, downloaded |-> FALSE]

\* the gate of commands.go:404
NoPathOrKey(info) ==
    TrimSpace(info.DirectPath) = <<>> \/ BlobLen(info.MediaKey) = 0

\* info.LocalPath != nil and os.Stat finds the file
AlreadyOnDisk(info, env) == info.LocalPath # nil /\ env.localExists

\* a variant that does not look for the file of a recorded local path
jobAfterLookup_NoDiskCheck(msgs, got, env) ==
    IF got.err = ErrNoRows THEN skipAfterLookup(msgs, ZeroInfo)
    ELSE IF got.err # NoErr THEN failAfterLookup(msgs, got.err, ZeroInfo)
    ELSE IF NoPathOrKey(got.info) THEN skipAfterLookup(msgs, got.info)
    ELSE afterPersist(got.info, downloadMediaAndPersist(msgs, got.info, EMPTY, env))

\* processMediaJob from the answer of GetMessageForDownload on
jobAfterLookup(msgs, got, env) ==
    IF got.err = ErrNoRows THEN skipAfterLookup(msgs, ZeroInfo)
    ELSE IF got.err # NoErr THEN failAfterLookup(msgs, got.err, ZeroInfo)
    ELSE IF NoPathOrKey(got.info) THEN skipAfterLookup(msgs, got.info)
    ELSE IF AlreadyOnDisk(got.info, env) THEN skipAfterLookup(msgs, got.info)
    ELSE afterPersist(got.info, downloadMediaAndPersist(msgs, got.info, EMPTY, env))

processMediaJobResult(chts, msgs, job, env) ==
    jobAfterLookup(msgs,
                   GetMessageForDownloadResult(chts, msgs, job.messageID, job.chatJID),
                   env)

(***************************************************************************)
(* DownloadMediaToFile (internal/client/client.go): the temporary file,    *)
(* the fetch into it and the rename onto the target                        *)
(***************************************************************************)
ErrCreateTemp == "failed to create temp file: %w"
ErrFetch == "download failed"
ErrFlush == "failed to flush media file: %w"
ErrClose == "failed to close media file: %w"
ErrMove == "failed to move downloaded media: %w"
ErrStat == "failed to stat downloaded media: %w"

\* no call of DownloadMediaToFile yet
NoTransfer == [pc |-> "idle"]

\* filepath.Dir: the path up to its last separator, cleaned
filepathDir(path) == filepathClean(SubSeq(path, 1, LastIndex(path, PathSeparator)))

\* a name os.CreateTemp(dir, ".wa-download-*") may pick
TempName(dir, random) == filepathJoin(dir, <<".", "w", "a", "-", random>>)

\* the file system without one file
RemoveFile(fs, name) == [f \in DOMAIN fs \ {name} |-> fs[f]]

\* the file system with one file created or replaced
WriteWhole(fs, name, bytes) == [f \in DOMAIN fs \cup {name} |-> IF f = name THEN bytes ELSE fs[f]]

\* os.Rename: the target takes the bytes of the source, the source is gone
RenameFile(fs, from, to) == RemoveFile(WriteWhole(fs, to, fs[from]), from)

\* a variant of the deferred function that leaves the temporary file
Deferred_KeepTemp(fs, d) == fs

\* the deferred function of client.go:298-303: the temporary file is
\* removed unless success was set
Deferred(fs, d) == IF d.success THEN fs ELSE RemoveFile(fs, d.tmpName)

\* the bytes the server delivers
Media == <<"x", "y">>

(***************************************************************************)
(* mediaDownloadWorker: the pool Sync starts.  ctx is w.ctx ("nil" before  *)
(* Start), jobs the buffered channel, run the position of each goroutine   *)
(* started by Start, senders the jobs held by the goroutines Enqueue       *)
(* started on a full channel, summary what PrintSummary reported.          *)
(***************************************************************************)
\* the goroutines of the pool (Sync asks for 4)
Workers == 2

\* the factor of make(chan mediaJob, workers*4)
QueueFactor == 1

Capacity == Workers * QueueFactor

\* mediaJob{}
NoJob == [chatJID |-> EMPTY, messageID |-> EMPTY]

NoPool ==
    [ctx |-> "nil", jobs |-> <<>>,
     run |-> [i \in 1 .. Workers |-> [job |-> NoJob, pc |-> "none"]],
     senders |-> <<>>, expiredCount |-> 0, otherErrors |-> 0, summary |-> nil,
     otherErrorMsgs |-> <<>>, cap |-> 0, workers |-> 0]

\* Sync has built no result yet
\* "data": null of a result
NullData == [null |-> TRUE, synced |-> FALSE, messages_count |-> 0]

NoResult == [success |-> FALSE, data |-> NullData, error |-> "null"]

\* Sync before it is called
NoSync ==
    [pc |-> "idle", cancelled |-> FALSE, registered |-> FALSE, connected |-> FALSE,
     messageCount |-> 0, result |-> NoResult]

\* no process has run
NoProc ==
    [args |-> <<>>, result |-> NoResult, ran |-> FALSE, command |-> "none",
     stream |-> "none", exit |-> 0]

\* no event has been handled, no message sent
NoHandled == [event |-> "none", calls |-> <<>>, records |-> 0, batch |-> 0, failed |-> {}]

\* no chat name has been resolved
NoResolution == [op |-> "none"]

\* the goroutines of a pool that is asked for none, or for fewer
defaultWorkers == 2

\* a variant that takes the count as it is asked for
workerCount_AsAsked(workers) == workers

\* commands.go:437-439
workerCount(workers) == IF workers <= 0 THEN defaultWorkers ELSE workers

\* newMediaDownloadWorker: the count of goroutines, none running yet, and
\* the channel of workers*4 jobs (QueueFactor standing for the 4)
newMediaDownloadWorker(w, workers) ==
    [w EXCEPT !.workers = workerCount(workers),
              !.run = [i \in 1 .. workerCount(workers) |-> [job |-> NoJob, pc |-> "none"]],
              !.cap = workerCount(workers) * QueueFactor]

\* Start: w.ctx is derived from the context of Sync, one goroutine per
\* worker enters run
Started(w, parentDone) ==
    [w EXCEPT !.ctx = IF parentDone THEN "done" ELSE "live",
              !.run = [i \in 1 .. w.workers |-> [job |-> NoJob, pc |-> "select"]]]

\* the cases of a select on "w.jobs <- job" and "<-w.ctx.Done()" that can
\* proceed
ReadySends(w) ==
    (IF Len(w.jobs) < w.cap THEN {"send"} ELSE {}) \cup
    (IF w.ctx = "done" THEN {"done"} ELSE {})

\* a variant of Enqueue whose select has no default case
EnqueueChoices_NoDefault(w) ==
    IF w.ctx = "nil" THEN {"nil"} ELSE ReadySends(w)

\* Enqueue: the branch it may take; the select picks any case that can
\* proceed and the default case when none can
EnqueueChoices(w) ==
    IF w.ctx = "nil" THEN {"nil"}
    ELSE IF ReadySends(w) = {} THEN {"default"}
    ELSE ReadySends(w)

\* Enqueue having taken the branch
Enqueued(w, job, branch) ==
    IF branch = "send" THEN [w EXCEPT !.jobs = Append(@, job)]
    ELSE IF branch = "default" THEN [w EXCEPT !.senders = Append(@, job)]
    ELSE w

\* the status codes trackError looks for in the text of an error
ExpiredStatusCodes == {403, 404, 410}

\* commands.go:475-477; status is the code the text of a download error
\* carries, 0 when it carries none
isExpired(status) == status \in ExpiredStatusCodes

\* the other errors PrintSummary can list
maxOtherErrorMsgs == 5

\* a variant that keeps the latest errors
trackError_KeepLatest(w, err, expired) ==
    IF err = NoErr THEN w
    ELSE IF err = ErrDownload /\ expired THEN [w EXCEPT !.expiredCount = @ + 1]
    ELSE [w EXCEPT !.otherErrors = @ + 1,
                   !.otherErrorMsgs = IF Len(@) < maxOtherErrorMsgs THEN Append(@, err)
                                      ELSE Append(Tail(@), err)]

\* trackError: a download answered 403, 404 or 410 counts as expired
\* media, every other error as an other error, and the texts of the first
\* other errors are kept
trackError(w, err, expired) ==
    IF err = NoErr THEN w
    ELSE IF err = ErrDownload /\ expired THEN [w EXCEPT !.expiredCount = @ + 1]
    ELSE [w EXCEPT !.otherErrors = @ + 1,
                   !.otherErrorMsgs = IF Len(@) < maxOtherErrorMsgs THEN Append(@, err)
                                      ELSE @]

\* a variant of wg.Wait that is content with one goroutine gone
AllExited_Any(w) == \E i \in DOMAIN w.run : w.run[i].pc = "exited"

\* wg.Wait returns: every goroutine of Start has run its deferred wg.Done
AllExited(w) == \A i \in DOMAIN w.run : w.run[i].pc = "exited"


(***************************************************************************)
(* The list operations: ListMessages, ListChats, SearchContacts and the    *)
(* JSON result the commands build from their answers                       *)
(***************************************************************************)
\* SQLite's LIKE on ASCII text: % matches any run of characters, _ any one
\* character, every other character itself without regard to case
RECURSIVE Like(_, _)
Like(text, pattern) ==
    IF pattern = <<>> THEN text = <<>>
    ELSE IF Head(pattern) = "%"
    THEN \E k \in 0 .. Len(text) : Like(SubSeq(text, k + 1, Len(text)), Tail(pattern))
    ELSE /\ text # <<>>
         /\ Head(pattern) = "_" \/ ToLower(<<Head(text)>>) = ToLower(<<Head(pattern)>>)
         /\ Like(Tail(text), Tail(pattern))

\* "%" + query + "%"
Containing(query) == <<"%">> \o query \o <<"%">>

\* LIMIT limit OFFSET offset of SQLite: a negative limit is no limit, a
\* negative offset is 0
LimitOffset(rows, limit, offset) ==
    SubSeq(rows,
           (IF offset < 0 THEN 0 ELSE offset) + 1,
           IF limit < 0 \/ (IF offset < 0 THEN 0 ELSE offset) + limit > Len(rows)
           THEN Len(rows)
           ELSE (IF offset < 0 THEN 0 ELSE offset) + limit)

\* the orders ORDER BY may deliver the keys in: rank[k] ascending, rows of
\* equal rank in any order
RECURSIVE Orderings(_, _)
Orderings(keys, rank) ==
    IF keys = {} THEN {<<>>}
    ELSE UNION {{<<first>> \o rest : rest \in Orderings(keys \ {first}, rank)} :
                    first \in {k \in keys : \A j \in keys : rank[k] <= rank[j]}}

\* a Go slice declared with var and filled with append: nil until the
\* first append
NilSlice == [elems |-> <<>>, isNil |-> TRUE]

Appended(rows) == IF rows = <<>> THEN NilSlice ELSE [elems |-> rows, isNil |-> FALSE]

\* a variant that compares the chat with LIKE, as the text is
MatchingMessages_ChatLike(chts, msgs, params) ==
    {k \in DOMAIN msgs :
        /\ k[2] \in DOMAIN chts
        /\ params.After # NULLTIME => msgs[k].timestamp > params.After
        /\ params.Before # NULLTIME => msgs[k].timestamp < params.Before
        /\ params.Sender # nil => msgs[k].sender = params.Sender
        /\ params.ChatJID # nil => Like(k[2], params.ChatJID)
        /\ params.Query # nil => Like(msgs[k].content, Containing(params.Query))}

\* the messages ListMessages selects: joined with their chat row, and
\* passing every filter that is set (a nil *time.Time is NULLTIME here)
MatchingMessages(chts, msgs, params) ==
    {k \in DOMAIN msgs :
        /\ k[2] \in DOMAIN chts
        /\ params.After # NULLTIME => msgs[k].timestamp > params.After
        /\ params.Before # NULLTIME => msgs[k].timestamp < params.Before
        /\ params.Sender # nil => msgs[k].sender = params.Sender
        /\ params.ChatJID # nil => k[2] = params.ChatJID
        /\ params.Query # nil => Like(msgs[k].content, Containing(params.Query))}

\* rows.Scan into a Message
MessageOf(chts, msgs, k) ==
    [ID |-> k[1], ChatJID |-> k[2], ChatName |-> chts[k[2]].name,
     MediaType |-> msgs[k].media_type, Sender |-> msgs[k].sender,
     Content |-> msgs[k].content, IsFromMe |-> msgs[k].is_from_me,
     Timestamp |-> msgs[k].timestamp]

\* the orders SQLite may deliver the selected messages in: ORDER BY
\* m.timestamp DESC, messages of one timestamp in the order of its scan
MessageOrders(chts, msgs, params) ==
    Orderings(MatchingMessages(chts, msgs, params),
              [k \in DOMAIN msgs |-> 0 - msgs[k].timestamp])

\* a variant whose offset is the page number
ListMessagesPage_OffsetIsPage(chts, msgs, params, order) ==
    Appended(LimitOffset([i \in DOMAIN order |-> MessageOf(chts, msgs, order[i])],
                         params.Limit, params.Page))

\* LIMIT ? OFFSET ? with params.Limit and params.Page*params.Limit, and the
\* slice built from the rows
ListMessagesPage(chts, msgs, params, order) ==
    Appended(LimitOffset([i \in DOMAIN order |-> MessageOf(chts, msgs, order[i])],
                         params.Limit, params.Page * params.Limit))

\* what ListMessages may return for a query that ran: newest first
ListMessagesRows(chts, msgs, params) ==
    {ListMessagesPage(chts, msgs, params, order) :
        order \in MessageOrders(chts, msgs, params)}

\* the chats ListChats selects
MatchingChats(chts, params) ==
    {jid \in DOMAIN chts :
        params.Query # nil =>
            \/ Like(chts[jid].name, Containing(params.Query))
            \/ Like(jid, Containing(params.Query))}

\* rows.Scan into a Chat
ChatOf(chts, jid) ==
    [JID |-> jid, Name |-> chts[jid].name, LastMessageTime |-> chts[jid].last_message_time]

\* what ListChats may return for a query that ran: latest message first
ListChatsRows(chts, params) ==
    {Appended(LimitOffset([i \in DOMAIN order |-> ChatOf(chts, order[i])],
                          params.Limit, params.Page * params.Limit)) :
        order \in Orderings(MatchingChats(chts, params),
                            [jid \in DOMAIN chts |-> 0 - chts[jid].last_message_time])}

GroupSuffix == <<"@", "g", ".", "u", "s">>

\* a variant without the exclusion of groups
MatchingContacts_WithGroups(chts, query) ==
    {jid \in DOMAIN chts :
        Like(chts[jid].name, Containing(query)) \/ Like(jid, Containing(query))}

\* the chats SearchContacts selects: no groups
MatchingContacts(chts, query) ==
    {jid \in DOMAIN chts :
        /\ Like(chts[jid].name, Containing(query)) \/ Like(jid, Containing(query))
        /\ ~Like(jid, <<"%">> \o GroupSuffix)}

\* the part of the JID before its first @, empty without one
PhoneNumberOf(jid) ==
    IF \E i \in DOMAIN jid : jid[i] = "@"
    THEN SubSeq(jid, 1, (CHOOSE i \in DOMAIN jid :
                            jid[i] = "@" /\ \A j \in 1 .. i - 1 : jid[j] # "@") - 1)
    ELSE <<>>

ContactOf(chts, jid) ==
    [JID |-> jid, Name |-> chts[jid].name, PhoneNumber |-> PhoneNumberOf(jid)]

\* the characters of the model in the order of their bytes, which is the
\* order of the BINARY collation
Collation ==
    <<" ", "-", ".", "/", "0", "1", "2", "3", "4", "5", "6", "7", "8", "9", "@">>
        \o Upper \o <<"_">> \o Lower

CharCode(c) ==
    IF \E j \in DOMAIN Collation : Collation[j] = c
    THEN CHOOSE j \in DOMAIN Collation : Collation[j] = c
    ELSE 0

\* the characters of a name that ORDER BY name compares here
NameWidth == 3

RECURSIVE NameRankTo(_, _)
NameRankTo(name, width) ==
    IF width = 0 THEN 0
    ELSE IF name = <<>> THEN 0
    ELSE CharCode(Head(name)) * (Len(Collation) + 1) ^ (width - 1)
             + NameRankTo(Tail(name), width - 1)

\* the position of a name in ORDER BY name (BINARY collation)
NameRank(name) == NameRankTo(name, NameWidth)

MaxContacts == 50

\* what SearchContacts may return for a query that ran
SearchContactsRows(chts, query) ==
    {Appended(LimitOffset([i \in DOMAIN order |-> ContactOf(chts, order[i])],
                          MaxContacts, 0)) :
        order \in Orderings(MatchingContacts(chts, query),
                            [jid \in DOMAIN chts |-> NameRank(chts[jid].name)])}

ErrQuery == "sql: database is closed"

\* encoding/json on a slice: null for a nil slice, an array otherwise
JsonOfSlice(slice) ==
    IF slice.isNil THEN [null |-> TRUE, array |-> <<>>]
    ELSE [null |-> FALSE, array |-> slice.elems]

\* output.Success(data) for a slice: {"success":true,"data":...,"error":null}
ListSuccess(slice) == [success |-> TRUE, data |-> JsonOfSlice(slice), error |-> "null"]

\* output.Error(err): {"success":false,"data":null,"error":"..."}
ListError(err) == [success |-> FALSE, data |-> [null |-> TRUE, array |-> <<>>], error |-> err]

(***************************************************************************)
(* Operations of the store, as steps.  Every step records itself in call,  *)
(* the call before it in prev and the tables it started from in pre.       *)
(***************************************************************************)
Snapshot == [chats |-> chats, messages |-> messages]

Init ==
    /\ chats = <<>>
    /\ messages = <<>>
    /\ call = NoCall
    /\ prev = NoCall
    /\ pre = [chats |-> <<>>, messages |-> <<>>]
    /\ files = <<>>
    /\ dl = NoTransfer
    /\ pool = NoPool
    /\ sync = NoSync
    /\ listed = NoCall
    /\ proc = NoProc
    /\ handled = NoHandled
    /\ resolution = NoResolution

StoreChat(jid, name, lastMessageTime) ==
    /\ chats' = StoreChatRows(chats, jid, name, lastMessageTime)
    /\ call' = [op |-> "StoreChat",
                args |-> [jid |-> jid, name |-> name,
                          lastMessageTime |-> lastMessageTime],
                err |-> NoErr]
    /\ prev' = call
    /\ pre' = Snapshot
    /\ UNCHANGED messages
    /\ UNCHANGED beyondStore

StoreMessage(m) ==
    /\ messages' = StoreMessageRows(chats, messages, m)
    /\ call' = [op |-> "StoreMessage", args |-> m,
                err |-> StoreMessageErr(chats, messages, m)]
    /\ prev' = call
    /\ pre' = Snapshot
    /\ UNCHANGED chats
    /\ UNCHANGED beyondStore

MarkMediaDownloaded(id, chatJID, localPath, downloadedAt) ==
    /\ messages' = MarkMediaDownloadedRows(messages, id, chatJID, localPath, downloadedAt)
    /\ call' = [op |-> "MarkMediaDownloaded",
                args |-> [id |-> id, chatJID |-> chatJID, localPath |-> localPath,
                          downloadedAt |-> downloadedAt],
                err |-> NoErr]
    /\ prev' = call
    /\ pre' = Snapshot
    /\ UNCHANGED chats
    /\ UNCHANGED beyondStore

GetMessageForDownload(id, chatJID) ==
    \E got \in {GetMessageForDownloadResult(chats, messages, id, chatJID)} :
        /\ call' = [op |-> "GetMessageForDownload",
                    args |-> [id |-> id, chatJID |-> chatJID],
                    err |-> got.err,
                    info |-> got.info]
        /\ prev' = call
        /\ pre' = Snapshot
        /\ UNCHANGED <<chats, messages>>
        /\ UNCHANGED beyondStore

DownloadMedia(messageID, chatJID, outputPath, env) ==
    \E res \in {DownloadMediaResult(chats, messages, messageID, chatJID, outputPath, env)} :
        /\ messages' = res.messages
        /\ call' = [op |-> "DownloadMedia",
                    args |-> [chatJID |-> chatJID, messageID |-> messageID,
                              outputPath |-> outputPath],
                    err |-> res.err,
                    path |-> res.path,
                    info |-> res.info,
                    effects |-> res.effects,
                    downloaded |-> res.downloaded]
        /\ prev' = call
        /\ pre' = Snapshot
        /\ UNCHANGED chats
        /\ UNCHANGED beyondStore

\* one job of the pool, from the receive on the jobs channel to the return
\* of processMediaJob
ProcessMediaJob(job, env) ==
    \E res \in {processMediaJobResult(chats, messages, job, env)} :
        /\ messages' = res.messages
        /\ call' = [op |-> "processMediaJob",
                    args |-> [chatJID |-> job.chatJID, messageID |-> job.messageID,
                              outputPath |-> EMPTY],
                    err |-> res.err,
                    path |-> res.path,
                    info |-> res.info,
                    effects |-> res.effects,
                    downloaded |-> res.downloaded,
                    localExists |-> env.localExists]
        /\ prev' = call
        /\ pre' = Snapshot
        /\ UNCHANGED chats
        /\ UNCHANGED beyondStore

\* client.go:281-297: the checks and os.CreateTemp
TransferBegin(req, targetPath, random, ok) ==
    /\ dl.pc \in {"idle", "returned"}
    /\ TempName(filepathDir(targetPath), random) \notin DOMAIN files
    /\ IF TrimSpace(req.DirectPath) = <<>>
       THEN /\ dl' = [err |-> ErrDirectPathEmpty, pc |-> "returned", success |-> FALSE,
                      tmpName |-> nil,
                      target |-> targetPath, steps |-> <<>>, before |-> files]
            /\ files' = files
       ELSE IF ~mediaTypeSupported(req.MediaType)
       THEN /\ dl' = [err |-> ErrUnsupportedType, pc |-> "returned", success |-> FALSE,
                      tmpName |-> nil,
                      target |-> targetPath, steps |-> <<>>, before |-> files]
            /\ files' = files
       ELSE IF ~ok
       THEN /\ dl' = [err |-> ErrCreateTemp, pc |-> "returned", success |-> FALSE,
                      tmpName |-> nil,
                      target |-> targetPath, steps |-> <<>>, before |-> files]
            /\ files' = files
       ELSE /\ dl' = [err |-> NoErr, pc |-> "fetch", success |-> FALSE,
                      tmpName |-> TempName(filepathDir(targetPath), random),
                      target |-> targetPath, steps |-> <<"create">>, before |-> files]
            /\ files' = WriteWhole(files, TempName(filepathDir(targetPath), random), <<>>)
    /\ UNCHANGED <<chats, messages, call, prev, pre, pool, sync, listed, proc, handled, resolution>>

\* client.go:310, inside DownloadMediaWithPathToFile: one more byte
\* reaches the temporary file
TransferWrite ==
    /\ dl.pc = "fetch"
    /\ Len(files[dl.tmpName]) < Len(Media)
    /\ files' = [files EXCEPT ![dl.tmpName] = Append(@, Media[Len(@) + 1])]
    /\ dl' = [dl EXCEPT !.steps = Append(@, "write")]
    /\ UNCHANGED <<chats, messages, call, prev, pre, pool, sync, listed, proc, handled, resolution>>

\* a step of the function that failed: the deferred function runs and the
\* error is returned
TransferFail(err) ==
    /\ files' = Deferred(files, dl)
    /\ dl' = [dl EXCEPT !.pc = "returned", !.err = err]
    /\ UNCHANGED <<chats, messages, call, prev, pre, pool, sync, listed, proc, handled, resolution>>

\* a step of the function that succeeded
TransferPass(pc, step) ==
    /\ dl' = [dl EXCEPT !.pc = pc, !.steps = Append(@, step)]
    /\ UNCHANGED <<chats, messages, call, prev, pre, files, pool, sync, listed, proc, handled, resolution>>

\* client.go:310-312: DownloadMediaWithPathToFile returns, with every byte
\* written if it returns nil
TransferFetched(ok) ==
    /\ dl.pc = "fetch"
    /\ IF ok
       THEN files[dl.tmpName] = Media /\ TransferPass("flush", "fetch")
       ELSE TransferFail(ErrFetch)

\* client.go:314-316: tmpFile.Sync
TransferFlushed(ok) ==
    /\ dl.pc = "flush"
    /\ IF ok THEN TransferPass("close", "flush") ELSE TransferFail(ErrFlush)

\* client.go:317-319: tmpFile.Close
TransferClosed(ok) ==
    /\ dl.pc = "close"
    /\ IF ok THEN TransferPass("rename", "close") ELSE TransferFail(ErrClose)

\* client.go:320-323: os.Rename and success = true
TransferRenamed(ok) ==
    /\ dl.pc = "rename"
    /\ IF ok
       THEN /\ files' = RenameFile(files, dl.tmpName, dl.target)
            /\ dl' = [dl EXCEPT !.pc = "stat", !.success = TRUE,
                                !.steps = Append(@, "rename")]
            /\ UNCHANGED <<chats, messages, call, prev, pre, pool, sync, listed, proc, handled, resolution>>
       ELSE TransferFail(ErrMove)

\* client.go:325-329: os.Stat and the return
TransferReturned(ok) ==
    /\ dl.pc = "stat"
    /\ files' = Deferred(files, dl)
    /\ dl' = [dl EXCEPT !.pc = "returned", !.err = IF ok THEN NoErr ELSE ErrStat]
    /\ UNCHANGED <<chats, messages, call, prev, pre, pool, sync, listed, proc, handled, resolution>>

\* between two calls, some other program leaves a file at the target path
OtherWriter(targetPath, bytes) ==
    /\ dl.pc \in {"idle", "returned"}
    /\ files' = WriteWhole(files, targetPath, bytes)
    /\ dl' = NoTransfer
    /\ UNCHANGED <<chats, messages, call, prev, pre, pool, sync, listed, proc, handled, resolution>>

(***************************************************************************)
(* The list commands, as steps.  ran tells whether the SQL query ran or    *)
(* the database answered with an error.  A list command writes no table   *)
(* and records itself in listed.                                           *)
(***************************************************************************)
\* a list command that found rows to be the answer of the store
Listed(op, args, ran, rows) ==
    /\ listed' = [op |-> op, args |-> args,
                  err |-> IF ran THEN NoErr ELSE ErrQuery,
                  result |-> IF ran THEN ListSuccess(rows) ELSE ListError(ErrQuery)]
    /\ UNCHANGED <<chats, messages, call, prev, pre, files, dl, pool, sync, proc, handled, resolution>>

\* commands.go:97-102: the parameters App.ListMessages hands to the store
AppListMessagesParams(chatJID, query, limit, page) ==
    [ChatJID |-> chatJID, Sender |-> nil, After |-> NULLTIME, Before |-> NULLTIME,
     Query |-> query, Limit |-> limit, Page |-> page]

\* commands.go:96-108 over store.go:233-279
ListMessages(params, ran) ==
    \E rows \in ListMessagesRows(chats, messages, params) :
        Listed("ListMessages", params, ran, rows)

\* commands.go:119-130 over store.go:420-446
ListChats(params, ran) ==
    \E rows \in ListChatsRows(chats, params) :
        Listed("ListChats", params, ran, rows)

\* commands.go:110-117 over store.go:281-313
SearchContacts(query, ran) ==
    \E rows \in SearchContactsRows(chats, query) :
        Listed("SearchContacts", [Query |-> query], ran, rows)

(***************************************************************************)
(* Sync and its worker pool, as steps.  The context of Sync is cancelled   *)
(* by the signal handler of main; the client delivers events to the        *)
(* registered handler on its own goroutine for as long as it is connected. *)
(* call, prev and pre record the operations invoked as single steps; the   *)
(* steps of Sync and of its goroutines leave them alone.                   *)
(***************************************************************************)
storeAndSteps == <<chats, messages, call, prev, pre, files, dl, listed, proc, handled, resolution>>

\* the events Sync is delivered at most
MaxEvents == 5

ErrConnect == "failed to connect: %v"

\* output.Success(map{"synced": true, "messages_count": messageCount})
SyncSuccess(messageCount) ==
    [success |-> TRUE,
     data |-> [null |-> FALSE, synced |-> TRUE, messages_count |-> messageCount],
     error |-> "null"]

\* output.Error(err)
SyncError(err) == [success |-> FALSE, data |-> NullData, error |-> err]

\* commands.go:563-770: the pool is created and started, the deferred
\* function is set up, StartSync registers the handler and connects; when
\* Connect fails Sync returns output.Error through the deferred function
SyncBegin(connects) ==
    /\ sync.pc = "idle"
    /\ pool' = Started(newMediaDownloadWorker(pool, Workers), sync.cancelled)
    /\ sync' = [sync EXCEPT !.pc = IF connects THEN "waiting" ELSE "stopping",
                            !.registered = TRUE,
                            !.connected = connects,
                            !.result = IF connects THEN NoResult ELSE SyncError(ErrConnect)]
    /\ UNCHANGED storeAndSteps

\* main.go:104-109: the signal arrives and cancel() is called; w.ctx is
\* derived from the context and is done with it
Cancel ==
    /\ ~sync.cancelled
    /\ sync' = [sync EXCEPT !.cancelled = TRUE]
    /\ pool' = [pool EXCEPT !.ctx = IF @ = "nil" THEN @ ELSE "done"]
    /\ UNCHANGED storeAndSteps

\* a variant of Sync that does not wait for its context
SyncWake_NoWait ==
    /\ sync.pc = "waiting"
    /\ sync' = [sync EXCEPT !.pc = "stopping", !.result = SyncSuccess(sync.messageCount)]
    /\ UNCHANGED <<pool, storeAndSteps>>

\* commands.go:773-780: <-ctx.Done() returns and the result is built from
\* messageCount as it is then; the deferred function runs next
SyncWake ==
    /\ sync.pc = "waiting"
    /\ sync.cancelled
    /\ sync' = [sync EXCEPT !.pc = "stopping", !.result = SyncSuccess(sync.messageCount)]
    /\ UNCHANGED <<pool, storeAndSteps>>

\* Stop, first half: w.cancel()
StopCancel ==
    /\ sync.pc = "stopping"
    /\ pool' = [pool EXCEPT !.ctx = "done"]
    /\ sync' = [sync EXCEPT !.pc = "joining"]
    /\ UNCHANGED storeAndSteps

\* Stop, second half: w.wg.Wait() returns and so does Stop
StopReturn ==
    /\ sync.pc = "joining"
    /\ AllExited(pool)
    /\ sync' = [sync EXCEPT !.pc = "summary"]
    /\ UNCHANGED <<pool, storeAndSteps>>

\* PrintSummary reports the two counters; the deferred function ends and
\* Sync returns the result it built
PrintSummary ==
    /\ sync.pc = "summary"
    /\ pool' = [pool EXCEPT !.summary = <<pool.expiredCount, pool.otherErrors>>]
    /\ sync' = [sync EXCEPT !.pc = "returned"]
    /\ UNCHANGED storeAndSteps

\* main.go:96: the deferred app.Close() disconnects the client
AppClose ==
    /\ sync.pc = "returned"
    /\ sync.connected
    /\ sync' = [sync EXCEPT !.connected = FALSE]
    /\ UNCHANGED <<pool, storeAndSteps>>

\* commands.go:630: the handler enqueues a message with a direct path and
\* a media key
WantsDownload(m) == m.directPath # EMPTY /\ BlobLen(m.mediaKey) > 0

\* the calls the handler and SendMessage make for one record, in the
\* order of the code (commands.go:612-632, 729-750, 154-165)
StoreChatCall(m, chatName) == [op |-> "StoreChat", chatName |-> chatName, msg |-> m]

StoreMessageCall(m, chatName) == [op |-> "StoreMessage", chatName |-> chatName, msg |-> m]

EnqueueCall(m, chatName) == [op |-> "Enqueue", chatName |-> chatName, msg |-> m]

\* a variant that stores the message before its chat
RecordCalls_MessageFirst(m, chatName) ==
    <<StoreMessageCall(m, chatName), StoreChatCall(m, chatName)>>
        \o (IF m.directPath # EMPTY /\ BlobLen(m.mediaKey) > 0
            THEN <<EnqueueCall(m, chatName)>> ELSE <<>>)

\* a variant that enqueues before the two writes
RecordCalls_EnqueueFirst(m, chatName) ==
    (IF m.directPath # EMPTY /\ BlobLen(m.mediaKey) > 0
     THEN <<EnqueueCall(m, chatName)>> ELSE <<>>)
        \o <<StoreChatCall(m, chatName), StoreMessageCall(m, chatName)>>

RecordCalls(m, chatName) ==
    <<StoreChatCall(m, chatName), StoreMessageCall(m, chatName)>>
        \o (IF WantsDownload(m) THEN <<EnqueueCall(m, chatName)>> ELSE <<>>)

\* the stores and the pool one call may leave; stored tells whether the
\* database takes a write (the errors of the two writes are dropped), and
\* Enqueue takes any case its select may take
CallOutcomes(st, c, stored) ==
    IF c.op = "StoreChat"
    THEN {[st EXCEPT !.chats = IF stored
                               THEN StoreChatRows(@, c.msg.chatJID, c.chatName, c.msg.timestamp)
                               ELSE @]}
    ELSE IF c.op = "StoreMessage"
    THEN {[st EXCEPT !.messages = IF stored THEN StoreMessageRows(st.chats, @, c.msg) ELSE @]}
    ELSE {[st EXCEPT !.pool = Enqueued(@, [chatJID |-> c.msg.chatJID, messageID |-> c.msg.id],
                                       branch)] :
              branch \in EnqueueChoices(st.pool)}

\* the calls made one after the other
RECURSIVE CallsOutcomes(_, _, _)
CallsOutcomes(st, calls, stored) ==
    IF calls = <<>> THEN {st}
    ELSE UNION {CallsOutcomes(s, Tail(calls), stored) :
                    s \in CallOutcomes(st, Head(calls), stored)}

\* commands.go:577-635: the handler on an *events.Message: StoreChat,
\* StoreMessage, Enqueue for a message with a direct path and a media key,
\* messageCount++
HandleMessage(m, chatName, stored) ==
    /\ sync.registered
    /\ sync.connected
    /\ sync.messageCount < MaxEvents
    /\ \E calls \in {RecordCalls(m, chatName)} :
         /\ \E st \in CallsOutcomes([chats |-> chats, messages |-> messages, pool |-> pool],
                                    calls, stored) :
              /\ chats' = st.chats
              /\ messages' = st.messages
              /\ pool' = st.pool
         /\ handled' = [event |-> "Message", calls |-> calls,
                        records |-> handled.records + 1, batch |-> 1,
                        failed |-> IF stored THEN {} ELSE {1, 2}]
    /\ sync' = [sync EXCEPT !.messageCount = @ + 1]
    /\ UNCHANGED <<call, prev, pre, files, dl, listed, proc, resolution>>

\* one record of a history sync handled from the state st of the loop
\* (commands.go:729-752); failed collects the writes the database refused
RecordHandled(st, m, chatName, stored) ==
    {[s EXCEPT !.messageCount = @ + 1,
               !.calls = @ \o RecordCalls(m, chatName),
               !.failed = IF stored THEN @ ELSE @ \cup {Len(st.calls) + 1, Len(st.calls) + 2}] :
        s \in CallsOutcomes(st, RecordCalls(m, chatName), stored)}

RECURSIVE HistoryOutcomes(_, _, _, _)

\* a variant of the loop that ends at the first record whose writes fail
HistoryOutcomes_StopAtFailure(st, records, chatName, stored) ==
    IF records = <<>> THEN {st}
    ELSE IF ~Head(records).payload
    THEN HistoryOutcomes(st, Tail(records), chatName, Tail(stored))
    ELSE IF ~Head(stored)
    THEN RecordHandled(st, Head(records).msg, chatName, FALSE)
    ELSE UNION {HistoryOutcomes(s, Tail(records), chatName, Tail(stored)) :
                    s \in RecordHandled(st, Head(records).msg, chatName, TRUE)}

\* commands.go:652-752: the loop over the messages of a conversation; a
\* record without a payload is skipped.  stored tells, record by record,
\* whether the database takes the writes.
HistoryOutcomes(st, records, chatName, stored) ==
    IF records = <<>> THEN {st}
    ELSE IF ~Head(records).payload
    THEN HistoryOutcomes(st, Tail(records), chatName, Tail(stored))
    ELSE UNION {HistoryOutcomes(s, Tail(records), chatName, Tail(stored)) :
                    s \in RecordHandled(st, Head(records).msg, chatName, Head(stored))}

\* the records of a conversation that carry a payload
Payloads(records) == {i \in DOMAIN records : records[i].payload}

\* commands.go:637-754: the handler on an *events.HistorySync of one
\* conversation
HandleHistorySync(records, chatName, stored) ==
    /\ sync.registered
    /\ sync.connected
    /\ sync.messageCount + Cardinality(Payloads(records)) <= MaxEvents
    /\ \E st \in HistoryOutcomes([chats |-> chats, messages |-> messages, pool |-> pool,
                                    messageCount |-> sync.messageCount, calls |-> <<>>,
                                    failed |-> {}],
                                   records, chatName, stored) :
           /\ chats' = st.chats
           /\ messages' = st.messages
           /\ pool' = st.pool
           /\ sync' = [sync EXCEPT !.messageCount = st.messageCount]
           /\ handled' = [event |-> "HistorySync", calls |-> st.calls,
                          records |-> handled.records + Cardinality(Payloads(records)),
                          batch |-> Cardinality(Payloads(records)),
                          failed |-> st.failed]
    /\ UNCHANGED <<call, prev, pre, files, dl, listed, proc, resolution>>

\* commands.go:756-763: a Connected or Disconnected event is reported, any
\* other event matches no case
HandleOther(event) ==
    /\ sync.registered
    /\ sync.connected
    /\ handled' = [handled EXCEPT !.event = event, !.calls = <<>>, !.batch = 0,
                                  !.failed = {}]
    /\ UNCHANGED <<chats, messages, call, prev, pre, files, dl, pool, sync, listed, proc, resolution>>

\* a variant in which the goroutine of Enqueue never gets its job into the
\* channel
SenderSends_Never ==
    /\ pool.senders # <<>>
    /\ FALSE
    /\ UNCHANGED vars

\* commands.go:523-530: a goroutine Enqueue started on a full channel gets
\* its job into the channel
SenderSends ==
    /\ pool.senders # <<>>
    /\ Len(pool.jobs) < pool.cap
    /\ pool' = [pool EXCEPT !.jobs = Append(@, Head(pool.senders)), !.senders = Tail(@)]
    /\ UNCHANGED <<sync, storeAndSteps>>

\* ... or sees w.ctx done and gives the job up
SenderGivesUp ==
    /\ pool.senders # <<>>
    /\ pool.ctx = "done"
    /\ pool' = [pool EXCEPT !.senders = Tail(@)]
    /\ UNCHANGED <<sync, storeAndSteps>>

\* a variant of run whose select has no case for w.ctx.Done()
WorkerExits_NoDoneCase(i) ==
    /\ pool.run[i].pc = "select"
    /\ FALSE
    /\ UNCHANGED vars

\* run, commands.go:462-464: the select takes the case <-w.ctx.Done() and
\* the goroutine returns through its deferred wg.Done
WorkerExits(i) ==
    /\ pool.run[i].pc = "select"
    /\ pool.ctx = "done"
    /\ pool' = [pool EXCEPT !.run[i].pc = "exited"]
    /\ UNCHANGED <<sync, storeAndSteps>>

\* run, commands.go:465: the select takes the case job := <-w.jobs
WorkerReceives(i) ==
    /\ pool.run[i].pc = "select"
    /\ pool.jobs # <<>>
    /\ pool' = [pool EXCEPT !.run[i] = [job |-> Head(pool.jobs), pc |-> "processMediaJob"],
                            !.jobs = Tail(@)]
    /\ UNCHANGED <<sync, storeAndSteps>>

\* run, commands.go:466-468: processMediaJob returns and its error, if
\* any, is counted; the goroutine is back at the select
WorkerFinishes(i, env, expired) ==
    /\ pool.run[i].pc = "processMediaJob"
    /\ \E res \in {processMediaJobResult(chats, messages, pool.run[i].job, env)} :
           /\ messages' = res.messages
           /\ pool' = [trackError(pool, res.err, expired) EXCEPT
                           !.run[i] = [job |-> NoJob, pc |-> "select"]]
    /\ UNCHANGED <<chats, call, prev, pre, sync, files, dl, listed, proc, handled, resolution>>

\* the errors the workers have returned so far with no status code or
\* with status code 500 in their text, oldest first
ErrorLog == IF call.op = "run" THEN call.log ELSE <<>>

\* the same step, recorded: the job, the error it ended in, the status
\* code in the text of that error and the counters as the step found them
WorkerFinishesJob(i, env, status) ==
    /\ pool.run[i].pc = "processMediaJob"
    /\ \E res \in {processMediaJobResult(chats, messages, pool.run[i].job, env)} :
           /\ messages' = res.messages
           /\ pool' = [trackError(pool, res.err, isExpired(status)) EXCEPT
                           !.run[i] = [job |-> NoJob, pc |-> "select"]]
           /\ call' = [op |-> "run", args |-> pool.run[i].job, err |-> res.err,
                       status |-> IF res.err = ErrDownload THEN status ELSE 0,
                       before |-> [expiredCount |-> pool.expiredCount,
                                   otherErrors |-> pool.otherErrors,
                                   otherErrorMsgs |-> pool.otherErrorMsgs],
                       log |-> IF \/ res.err = NoErr
                                  \/ res.err = ErrDownload /\ status \notin {0, 500}
                               THEN ErrorLog
                               ELSE Append(ErrorLog, res.err)]
    /\ UNCHANGED <<chats, prev, pre, sync, files, dl, listed, proc, handled, resolution>>

\* the downloads of media the workers have begun so far
Downloads == IF call.op = "mediaDownloader" THEN call.downloads ELSE 0

\* processMediaJob, commands.go:398-411: the row is read again and the job
\* ends here when there is nothing to download; the file of a recorded
\* local path exists when a download has written it
WorkerLooksUp(i) ==
    /\ pool.run[i].pc = "processMediaJob"
    /\ \E got \in {GetMessageForDownloadResult(chats, messages, pool.run[i].job.messageID,
                                                pool.run[i].job.chatJID)} :
           IF \/ got.err # NoErr
              \/ NoPathOrKey(got.info)
              \/ AlreadyOnDisk(got.info, [localExists |-> got.info.LocalPath \in DOMAIN files])
           THEN pool' = [trackError(pool, IF got.err = ErrNoRows THEN NoErr ELSE got.err, FALSE)
                            EXCEPT !.run[i] = [job |-> NoJob, pc |-> "select"]]
           ELSE pool' = [pool EXCEPT !.run[i] = [info |-> got.info, job |-> pool.run[i].job,
                                                 pc |-> "download"]]
    /\ UNCHANGED <<sync, storeAndSteps>>

\* processMediaJob, commands.go:413: downloadMediaAndPersist with the row
\* as the lookup found it; the file is written when the download succeeds
WorkerDownloads(i, env, expired) ==
    /\ pool.run[i].pc = "download"
    /\ \E res \in {downloadMediaAndPersist(messages, pool.run[i].info, EMPTY, env)} :
           /\ messages' = res.messages
           /\ files' = IF res.downloaded THEN WriteWhole(files, res.path, Media) ELSE files
           /\ pool' = [trackError(pool, res.err, expired) EXCEPT
                           !.run[i] = [job |-> NoJob, pc |-> "select"]]
           /\ call' = [op |-> "mediaDownloader", args |-> pool.run[i].job, err |-> res.err,
                       downloads |-> Downloads + 1]
    /\ UNCHANGED <<chats, prev, pre, sync, dl, listed, proc, handled, resolution>>

\* the jobs in the channel, with the goroutines of Enqueue and in the hands
\* of the workers
Pending(w) ==
    Len(w.jobs) + Len(w.senders)
        + Cardinality({i \in DOMAIN w.run : w.run[i].pc \in {"processMediaJob", "download"}})

\* newMediaDownloadWorker(a, workers) and Start, the context live; prev
\* keeps the call
Start(workers) ==
    /\ pool.ctx = "nil"
    /\ pool' = Started(newMediaDownloadWorker(pool, workers), FALSE)
    /\ prev' = [op |-> "Start", args |-> workers, err |-> NoErr]
    /\ UNCHANGED <<chats, messages, call, pre, sync, files, dl, listed, proc, handled,
                   resolution>>

\* commands.go:517-532: one call of Enqueue
Enqueue(job) ==
    /\ \E branch \in EnqueueChoices(pool) : pool' = Enqueued(pool, job, branch)
    /\ UNCHANGED <<sync, storeAndSteps>>

(***************************************************************************)
(* Chat names (client.go).  The two lookups are fields of the client; what *)
(* they answer comes from the contact store and the server, so an answer   *)
(* is an input: set tells whether the function is there, err its error.    *)
(***************************************************************************)
\* types.GroupServer
GroupServer == Tail(GroupSuffix)

\* types.BroadcastServer ("broadcast") and types.StatusBroadcastUser
\* ("status"), one letter each
BroadcastServer == <<"b">>

StatusBroadcastUser == <<"t">>

ErrParseJID == "failed to parse JID"

\* strings.Split(s, sep)[0] and [1] for a one-character separator
BeforeSep(s, sep) ==
    IF \E i \in DOMAIN s : s[i] = sep
    THEN SubSeq(s, 1, (CHOOSE i \in DOMAIN s : s[i] = sep /\ \A j \in 1 .. i - 1 : s[j] # sep) - 1)
    ELSE s

AfterSep(s, sep) ==
    IF \E i \in DOMAIN s : s[i] = sep
    THEN BeforeSep(SubSeq(s, (CHOOSE i \in DOMAIN s : s[i] = sep /\ \A j \in 1 .. i - 1 : s[j] # sep) + 1,
                          Len(s)), sep)
    ELSE <<>>

\* strings.ContainsRune
ContainsRune(s, c) == \E i \in DOMAIN s : s[i] = c

\* types.ParseJID: a string without "@" is a server; "user@server" gives
\* both; a user part with an agent or a device ("." or ":") is taken apart,
\* which fails unless the numbers in it are well formed (wellFormed)
ParseJID(jid, wellFormed) ==
    IF ~ContainsRune(jid, "@")
    THEN [err |-> NoErr, User |-> EMPTY, Server |-> jid]
    ELSE IF ContainsRune(BeforeSep(jid, "@"), ".") \/ ContainsRune(BeforeSep(jid, "@"), ":")
    THEN IF wellFormed
         THEN [err |-> NoErr,
               User |-> BeforeSep(BeforeSep(BeforeSep(jid, "@"), "."), ":"),
               Server |-> AfterSep(jid, "@")]
         ELSE [err |-> ErrParseJID, User |-> EMPTY, Server |-> EMPTY]
    ELSE [err |-> NoErr, User |-> BeforeSep(jid, "@"), Server |-> AfterSep(jid, "@")]

\* JID.IsBroadcastList
IsBroadcastList(parsed) ==
    parsed.Server = BroadcastServer /\ parsed.User # StatusBroadcastUser

\* client.go:186-206
bestContactName(info) ==
    IF ~info.Found THEN EMPTY
    ELSE IF TrimSpace(info.FullName) # EMPTY THEN TrimSpace(info.FullName)
    ELSE IF TrimSpace(info.FirstName) # EMPTY THEN TrimSpace(info.FirstName)
    ELSE IF TrimSpace(info.BusinessName) # EMPTY THEN TrimSpace(info.BusinessName)
    ELSE IF TrimSpace(info.PushName) # EMPTY /\ TrimSpace(info.PushName) # <<"-">>
    THEN TrimSpace(info.PushName)
    ELSE IF TrimSpace(info.RedactedPhone) # EMPTY THEN TrimSpace(info.RedactedPhone)
    ELSE EMPTY

\* client.go:209-211: the JID of the event stands in for an empty chatJID
ResolvedJID(chatJID, msg) ==
    IF chatJID = EMPTY /\ ~msg.isNil THEN msg.Chat ELSE chatJID

\* client.go:236-242: the push name of the event, else the fallback
PushNameOrFallback(fallback, msg) ==
    IF ~msg.isNil /\ TrimSpace(msg.PushName) # EMPTY /\ TrimSpace(msg.PushName) # <<"-">>
    THEN TrimSpace(msg.PushName)
    ELSE fallback

\* a variant that asks the group only for a JID of the group server
ResolveChatName_GroupServerOnly(chatJID, msg, wellFormed, groupInfoLookup, contactLookup) ==
    LET jid == ResolvedJID(chatJID, msg)
        parsed == ParseJID(jid, wellFormed)
    IN  IF parsed.err # NoErr THEN PushNameOrFallback(jid, msg)
        ELSE IF parsed.Server = GroupServer
        THEN IF /\ groupInfoLookup.set
                /\ groupInfoLookup.err = NoErr
                /\ ~groupInfoLookup.isNil
                /\ TrimSpace(groupInfoLookup.Name) # EMPTY
             THEN TrimSpace(groupInfoLookup.Name)
             ELSE PushNameOrFallback(jid, msg)
        ELSE IF /\ contactLookup.set
                /\ contactLookup.err = NoErr
                /\ bestContactName(contactLookup) # EMPTY
             THEN bestContactName(contactLookup)
             ELSE PushNameOrFallback(jid, msg)

\* client.go:208-243
ResolveChatName(chatJID, msg, wellFormed, groupInfoLookup, contactLookup) ==
    LET jid == ResolvedJID(chatJID, msg)
        parsed == ParseJID(jid, wellFormed)
    IN  IF parsed.err # NoErr THEN PushNameOrFallback(jid, msg)
        ELSE IF parsed.Server = GroupServer \/ IsBroadcastList(parsed)
        THEN IF /\ groupInfoLookup.set
                /\ groupInfoLookup.err = NoErr
                /\ ~groupInfoLookup.isNil
                /\ TrimSpace(groupInfoLookup.Name) # EMPTY
             THEN TrimSpace(groupInfoLookup.Name)
             ELSE PushNameOrFallback(jid, msg)
        ELSE IF /\ contactLookup.set
                /\ contactLookup.err = NoErr
                /\ bestContactName(contactLookup) # EMPTY
             THEN bestContactName(contactLookup)
             ELSE PushNameOrFallback(jid, msg)

\* one call of ResolveChatName on the inputs drawn
Resolve ==
    /\ resolution.op = "input"
    /\ resolution' = [resolution EXCEPT
           !.op = "ResolveChatName",
           !.name = ResolveChatName(resolution.chatJID, resolution.msg,
                                    resolution.wellFormed,
                                    resolution.groupInfoLookup,
                                    resolution.contactLookup)]
    /\ UNCHANGED <<chats, messages, call, prev, pre, files, dl, pool, sync, listed, proc, handled>>

(***************************************************************************)
(* main: one run of the process per command.  proc records the command,   *)
(* its arguments, the stream the result went to, the result and the exit  *)
(* status.                                                                 *)
(***************************************************************************)
\* output.Success(data): {"success":true,"data":...,"error":null}
OutputSuccess(data) == [success |-> TRUE, data |-> data, error |-> "null"]

\* output.Error(err): {"success":false,"data":null,"error":"..."}
OutputError(err) == [success |-> FALSE, data |-> NullData, error |-> err]

\* main.go:205: fmt.Println(result); main returns, the process ends with
\* status 0
Printed(command, args, result) ==
    [args |-> args, result |-> result, ran |-> TRUE, command |-> command,
     stream |-> "stdout", exit |-> 0]

\* main.go:87-94, 148-149, 173-174, 180-181, 190-191, 200-202: a failure
\* result written to the standard error by main itself, then os.Exit(1)
Rejected(command, args, err) ==
    [args |-> args, result |-> OutputError(err), ran |-> TRUE, command |-> command,
     stream |-> "stderr", exit |-> 1]

\* a run that touches neither the store nor Sync
MainEnds(p) ==
    /\ proc' = p
    /\ UNCHANGED <<chats, messages, call, prev, pre, files, dl, pool, sync, listed, handled, resolution>>

\* main.go:78-82
MainVersion ==
    MainEnds(Printed("version", <<>>, OutputSuccess([version |-> "1.3.1"])))

\* main.go:90-95: NewApp fails
MainInitFails(command) ==
    MainEnds(Rejected(command, <<>>, "Failed to initialize: %v"))

\* main.go:199-202
MainUnknown(command) ==
    MainEnds(Rejected(command, <<>>, "Unknown command: %s"))

ErrAuthenticate == "failed to authenticate"

\* commands.go:78-94: Auth
AuthResult(authenticated, authenticates) ==
    IF authenticated
    THEN OutputSuccess([authenticated |-> TRUE, message |-> "Already authenticated"])
    ELSE IF ~authenticates THEN OutputError(ErrAuthenticate)
    ELSE OutputSuccess([authenticated |-> TRUE, message |-> "Successfully authenticated"])

\* main.go:118-119
MainAuth(authenticated, authenticates) ==
    MainEnds(Printed("auth", <<>>, AuthResult(authenticated, authenticates)))

\* main.go:132-140: the arguments of app.ListMessages.  With the search
\* subcommand or a query the chat is not passed on.
MessagesParams(subcommand, chat, query, limit, page) ==
    IF subcommand = "search" \/ query # EMPTY
    THEN AppListMessagesParams(nil, query, limit, page)
    ELSE AppListMessagesParams(IF chat # EMPTY THEN chat ELSE nil, nil, limit, page)

\* commands.go:96-108: the result of a list command
ListResult(ran, rows) == IF ran THEN ListSuccess(rows) ELSE ListError(ErrQuery)

\* main.go:124-140
MainMessages(subcommand, chat, query, limit, page, ran) ==
    \E rows \in ListMessagesRows(chats, messages,
                                 MessagesParams(subcommand, chat, query, limit, page)) :
        MainEnds(Printed("messages",
                         [query |-> query, limit |-> limit, page |-> page,
                          subcommand |-> subcommand, chat |-> chat],
                         ListResult(ran, rows)))

\* main.go:142-151
MainContacts(query, ran) ==
    IF query = EMPTY
    THEN MainEnds(Rejected("contacts", [query |-> query], "--query required"))
    ELSE \E rows \in SearchContactsRows(chats, query) :
             MainEnds(Printed("contacts", [query |-> query], ListResult(ran, rows)))

\* main.go:153-164
MainChats(query, limit, page, ran) ==
    \E rows \in ListChatsRows(chats, [Query |-> IF query # EMPTY THEN query ELSE nil,
                                      Limit |-> limit, Page |-> page]) :
        MainEnds(Printed("chats", [query |-> query, limit |-> limit, page |-> page],
                         ListResult(ran, rows)))

\* main.go:178-197 over commands.go:167-200
MainMedia(subcommand, messageID, chat, outputPath, env) ==
    IF subcommand # "download"
    THEN MainEnds(Rejected("media", [subcommand |-> subcommand],
                           "Unknown media subcommand: %s"))
    ELSE IF messageID = EMPTY
    THEN MainEnds(Rejected("media", [subcommand |-> subcommand], "--message-id required"))
    ELSE \E res \in {DownloadMediaResult(chats, messages, messageID,
                                         IF chat # EMPTY THEN chat ELSE nil,
                                         outputPath, env)} :
             /\ messages' = res.messages
             /\ proc' = Printed("media", [subcommand |-> subcommand],
                                IF res.err = NoErr
                                THEN OutputSuccess([path |-> res.path,
                                                    message_id |-> CleanMessageID(messageID)])
                                ELSE OutputError(res.err))
             /\ UNCHANGED <<chats, call, prev, pre, files, dl, pool, sync, listed, handled, resolution>>

\* strconv of a non-negative number
Digits == <<"0", "1", "2", "3", "4", "5", "6", "7", "8", "9">>

RECURSIVE Itoa(_)
Itoa(n) == IF n < 10 THEN <<Digits[n + 1]>> ELSE Itoa(n \div 10) \o <<Digits[(n % 10) + 1]>>

\* "@s.whatsapp.net", abbreviated as in JidA
DefaultUserServer == <<"@", "s">>

\* commands.go:544-551
contains(str, c) == \E i \in DOMAIN str : str[i] = c

\* commands.go:141-145
RecipientJID(recipient) ==
    IF contains(recipient, "@") THEN recipient ELSE recipient \o DefaultUserServer

\* commands.go:154-164: the message SendMessage stores
SentMessage(recipient, message, now) ==
    [id |-> Itoa(now), chatJID |-> RecipientJID(recipient), sender |-> <<"m", "e">>,
     content |-> message, timestamp |-> now, isFromMe |-> TRUE, mediaType |-> EMPTY,
     filename |-> EMPTY, url |-> EMPTY, directPath |-> EMPTY, mimeType |-> EMPTY,
     mediaKey |-> NULL, fileSHA256 |-> NULL, fileEncSHA256 |-> NULL, fileLength |-> 0]

ErrSend == "not connected to WhatsApp"

\* main.go:166-176 over commands.go:132-172: connects and sends tell
\* whether the client does; resolved is the answer of ResolveChatName and
\* now the clock.  The errors of the two writes are dropped.
MainSend(to, message, connects, sends, resolved, now) ==
    IF to = EMPTY \/ message = EMPTY
    THEN MainEnds(Rejected("send", [to |-> to, message |-> message],
                           "--to and --message required"))
    ELSE IF ~connects \/ ~sends
    THEN MainEnds(Printed("send", [to |-> to, message |-> message],
                          OutputError(IF ~connects THEN ErrConnect ELSE ErrSend)))
    ELSE \E m \in {SentMessage(to, message, now)},
            chatName \in {IF resolved = EMPTY THEN to ELSE resolved} :
             /\ \E st \in CallsOutcomes([chats |-> chats, messages |-> messages,
                                           pool |-> pool],
                                          <<StoreChatCall(m, chatName),
                                            StoreMessageCall(m, chatName)>>, TRUE) :
                    /\ chats' = st.chats
                    /\ messages' = st.messages
             /\ handled' = [event |-> "SendMessage",
                            calls |-> <<StoreChatCall(m, chatName),
                                        StoreMessageCall(m, chatName)>>,
                            records |-> handled.records, batch |-> 0, failed |-> {}]
             /\ proc' = Printed("send", [to |-> to, message |-> message],
                                OutputSuccess([recipient |-> to, sent |-> TRUE]))
             /\ UNCHANGED <<call, prev, pre, files, dl, pool, sync, listed, resolution>>

\* the messages SendMessage has stored so far, oldest first
Sent == IF call.op = "SendMessage" THEN call.sent ELSE <<>>

\* commands.go:132-172, one call of App.SendMessage: connects and sends
\* tell whether the client does, resolved is the answer of ResolveChatName
\* and now the clock; call keeps the messages of the calls that succeeded
SendMessage(recipient, message, connects, sends, resolved, now) ==
    IF ~connects \/ ~sends
    THEN /\ call' = [op |-> "SendMessage",
                     args |-> [message |-> message, recipient |-> recipient],
                     err |-> IF ~connects THEN ErrConnect ELSE ErrSend, sent |-> Sent]
         /\ UNCHANGED <<chats, messages, prev, pre, files, dl, pool, sync, listed, proc,
                        handled, resolution>>
    ELSE \E m \in {SentMessage(recipient, message, now)},
            chatName \in {IF resolved = EMPTY THEN recipient ELSE resolved} :
             /\ \E st \in CallsOutcomes([chats |-> chats, messages |-> messages,
                                           pool |-> pool],
                                          <<StoreChatCall(m, chatName),
                                            StoreMessageCall(m, chatName)>>, TRUE) :
                    /\ chats' = st.chats
                    /\ messages' = st.messages
             /\ call' = [op |-> "SendMessage",
                         args |-> [message |-> message, recipient |-> recipient],
                         err |-> NoErr, sent |-> Append(Sent, m)]
             /\ UNCHANGED <<prev, pre, files, dl, pool, sync, listed, proc, handled,
                            resolution>>

\* main.go:121-122, 205: Sync has returned its result and main prints it
MainSync ==
    /\ sync.pc = "returned"
    /\ proc.command # "sync"
    /\ MainEnds(Printed("sync", <<>>, sync.result))

(***************************************************************************)
(* Writes to one message key: chat a exists after its StoreChat, chat b    *)
(* never does.                                                             *)
(***************************************************************************)
NextMessages ==
    \/ StoreChat(JidA, NameAlice, 1)
    \/ \E chatJID \in JIDs, d \in Descriptors : StoreMessage(Msg(MsgM, chatJID, d))
    \/ \E t \in Times : MarkMediaDownloaded(MsgM, JidA, PathOne, t)

SpecMessages == Init /\ [][NextMessages]_vars

(***************************************************************************)
(* MarkMediaDownloaded over a store that holds one message ID in two chats *)
(***************************************************************************)
BothChats == StoreChatRows(StoreChatRows(<<>>, JidA, NameAlice, 1), JidB, NameBob, 1)

InitMark ==
    /\ chats = BothChats
    /\ messages = StoreMessageRows(BothChats,
                                   StoreMessageRows(BothChats, <<>>,
                                                    Msg(MsgM, JidA, LiveImage)),
                                   Msg(MsgM, JidB, OwnDocument))
    /\ call = NoCall
    /\ prev = NoCall
    /\ pre = [chats |-> <<>>, messages |-> <<>>]
    /\ files = <<>>
    /\ dl = NoTransfer
    /\ pool = NoPool
    /\ sync = NoSync
    /\ listed = NoCall
    /\ proc = NoProc
    /\ handled = NoHandled
    /\ resolution = NoResolution

NextMark ==
    \E id \in {MsgM, MsgN}, localPath \in {PathOne, PathTwo}, t \in Times :
        MarkMediaDownloaded(id, JidA, localPath, t)

SpecMark == InitMark /\ [][NextMark]_vars

(***************************************************************************)
(* resolveOutputPath without a requested path, over the chat JIDs, message *)
(* IDs, media types and file names a row can hold                          *)
(***************************************************************************)
\* the segments resolveOutputPath sanitizes for the row, in path order
SanitizedSegments(info) ==
    <<sanitizeSegment(info.ChatJID), sanitizeSegment(info.ID)>>
        \o (IF info.MediaType # <<>> THEN <<sanitizeSegment(info.MediaType)>> ELSE <<>>)
        \o <<orFile(sanitizeFilename(filenameFor(info)))>>

\* a.resolveOutputPath(info, "")
ResolveOutputPath ==
    /\ call.op = "input"
    /\ call' = [op |-> "resolveOutputPath", args |-> call.args, err |-> NoErr,
                path |-> resolveOutputPath(call.args, EMPTY, FALSE),
                segments |-> SanitizedSegments(call.args)]
    /\ UNCHANGED <<chats, messages, prev, pre>>
    /\ UNCHANGED beyondStore

DotDot == <<".", ".">>

PathChatJIDs == {JidA, DotDot, <<".">>, <<".", ".", "/", "x">>}

PathMessageIDs == {MsgM, <<".">>, <<".", ".", ".">>, <<"/", ".", ".">>}

PathMediaTypes == {EMPTY, Image, <<".">>, <<".", ".", "\\", "e">>}

\* a file name longer than sanitizeFilename keeps, with a dot where the
\* truncation cuts and a short extension
LongName ==
    [i \in 1 .. (maxFilenameLen + 6) |->
        IF i \in {maxFilenameLen - 4, maxFilenameLen + 3} THEN "." ELSE "a"]

PathFilenames == {EMPTY, <<"f">>, <<".">>, <<".", ".", "/", "e">>, LongName}

InitPaths ==
    /\ chats = <<>>
    /\ messages = <<>>
    /\ call \in {[op |-> "input",
                   args |-> [ZeroInfo EXCEPT !.ChatJID = chatJID, !.ID = id,
                                             !.MediaType = mediaType,
                                             !.Filename = filename],
                   err |-> NoErr] :
                     chatJID \in PathChatJIDs, id \in PathMessageIDs,
                     mediaType \in PathMediaTypes, filename \in PathFilenames}
    /\ prev = NoCall
    /\ pre = [chats |-> <<>>, messages |-> <<>>]
    /\ files = <<>>
    /\ dl = NoTransfer
    /\ pool = NoPool
    /\ sync = NoSync
    /\ listed = NoCall
    /\ proc = NoProc
    /\ handled = NoHandled
    /\ resolution = NoResolution

NextPaths == ResolveOutputPath

SpecPaths == InitPaths /\ [][NextPaths]_vars

(***************************************************************************)
(* Writes to the chat table                                                *)
(***************************************************************************)
ChatNames == {EMPTY, NameAlice, NameBob} \cup JIDs

NextChats ==
    \E jid \in JIDs, name \in ChatNames, t \in Times : StoreChat(jid, name, t)

SpecChats == Init /\ [][NextChats]_vars

(***************************************************************************)
(* The download command over a store in which one message ID may live in   *)
(* two chats                                                               *)
(***************************************************************************)
\* a media record whose direct path is blank
BlankPathImage == [LiveImage EXCEPT !.directPath = <<" ">>]

DownloadDescriptors == {TextOnly, LiveImage, BlankPathImage}

\* message IDs as typed on the command line
RawMessageIDs == {EMPTY, <<" ">>, <<" ", "m", " ">>, MsgN}

\* the optional chat of the lookup
ChatFilters == {nil} \cup JIDs

\* what the file system and the downloader answer
Envs ==
    {[isDir |-> FALSE, mkdirFails |-> TRUE, downloadFails |-> FALSE, now |-> MaxTime],
     [isDir |-> FALSE, mkdirFails |-> FALSE, downloadFails |-> TRUE, now |-> MaxTime],
     [isDir |-> FALSE, mkdirFails |-> FALSE, downloadFails |-> FALSE, now |-> MaxTime]}

NextDownload ==
    \/ \E jid \in JIDs : StoreChat(jid, NameAlice, 1)
    \/ \E chatJID \in JIDs, d \in DownloadDescriptors : StoreMessage(Msg(MsgM, chatJID, d))
    \/ \E chatJID \in ChatFilters : GetMessageForDownload(MsgM, chatJID)
    \/ \E messageID \in RawMessageIDs, chatJID \in {nil, JidA}, env \in Envs :
           DownloadMedia(messageID, chatJID, EMPTY, env)

SpecDownload == Init /\ [][NextDownload]_vars

(***************************************************************************)
(* Download attempts, by the command and by a worker of the pool, on one   *)
(* message key                                                             *)
(***************************************************************************)
\* what the file system, the downloader and the clock answer to a worker
WorkerEnvs ==
    {[isDir |-> FALSE, mkdirFails |-> TRUE, downloadFails |-> FALSE, now |-> MaxTime,
      localExists |-> FALSE],
     [isDir |-> FALSE, mkdirFails |-> FALSE, downloadFails |-> TRUE, now |-> MaxTime,
      localExists |-> FALSE],
     [isDir |-> FALSE, mkdirFails |-> FALSE, downloadFails |-> FALSE, now |-> MaxTime,
      localExists |-> FALSE],
     [isDir |-> FALSE, mkdirFails |-> FALSE, downloadFails |-> FALSE, now |-> MaxTime - 1,
      localExists |-> TRUE]}

\* the jobs Sync enqueues: mediaJob{messageID, chatJID}
Jobs == {[chatJID |-> JidA, messageID |-> MsgM], [chatJID |-> JidA, messageID |-> MsgN]}

NextAttempts ==
    \/ StoreChat(JidA, NameAlice, 1)
    \/ \E d \in DownloadDescriptors : StoreMessage(Msg(MsgM, JidA, d))
    \/ \E env \in Envs : DownloadMedia(MsgM, nil, EMPTY, env)
    \/ \E job \in Jobs, env \in WorkerEnvs : ProcessMediaJob(job, env)

SpecAttempts == Init /\ [][NextAttempts]_vars

(***************************************************************************)
(* Downloads into one target path                                          *)
(***************************************************************************)
TargetPath == <<"/", "d", "/", "t">>

\* MediaDownloadRequest: a sound one, one of an unknown type, one without
\* a direct path
Requests ==
    {[MediaType |-> Image, DirectPath |-> <<"/", "p">>],
     [MediaType |-> EMPTY, DirectPath |-> <<"/", "p">>],
     [MediaType |-> Image, DirectPath |-> <<" ">>]}

NextTransfer ==
    \/ \E req \in Requests, random \in {"1", "2", "3"}, ok \in BOOLEAN :
           TransferBegin(req, TargetPath, random, ok)
    \/ TransferWrite
    \/ \E ok \in BOOLEAN : TransferFetched(ok)
    \/ \E ok \in BOOLEAN : TransferFlushed(ok)
    \/ \E ok \in BOOLEAN : TransferClosed(ok)
    \/ \E ok \in BOOLEAN : TransferRenamed(ok)
    \/ \E ok \in BOOLEAN : TransferReturned(ok)
    \/ \E bytes \in {<<"o">>, <<"o", "l", "d">>} : OtherWriter(TargetPath, bytes)

SpecTransfer == Init /\ [][NextTransfer]_vars

(***************************************************************************)
(* The list commands over a store of two chats, one of them a group, and   *)
(* two messages                                                            *)
(***************************************************************************)
JidGroup == <<"g">> \o GroupSuffix

ListQueries == {nil, <<"h">>, <<"z">>}

ListMessagesParams ==
    {AppListMessagesParams(chatJID, query, limit, page) :
        chatJID \in {nil, JidA}, query \in ListQueries, limit \in {1}, page \in {0, 1}}

ListChatsParams ==
    {[Query |-> query, Limit |-> limit, Page |-> page] :
        query \in ListQueries, limit \in {2}, page \in {0, 1}}

NextLists ==
    \/ \E jid \in {JidA, JidGroup} : StoreChat(jid, NameAlice, 1)
    \/ \E id \in {MsgM, MsgN} : StoreMessage(Msg(id, JidA, TextOnly))
    \/ \E params \in ListMessagesParams, ran \in BOOLEAN : ListMessages(params, ran)
    \/ \E params \in ListChatsParams, ran \in BOOLEAN : ListChats(params, ran)
    \/ \E query \in ListQueries \ {nil}, ran \in BOOLEAN : SearchContacts(query, ran)

SpecLists == Init /\ [][NextLists]_vars

(***************************************************************************)
(* One run of the sync command: live events for one message key, the pool  *)
(* and the cancellation                                                    *)
(***************************************************************************)
SyncMessages == {Msg(MsgM, JidA, LiveImage), Msg(MsgM, JidA, TextOnly)}

\* what the file system and the downloader answer to a worker of Sync
SyncEnvs == {env \in WorkerEnvs : ~env.localExists /\ ~env.mkdirFails}

NextSync ==
    \/ \E connects \in BOOLEAN : SyncBegin(connects)
    \/ Cancel
    \/ SyncWake
    \/ StopCancel
    \/ StopReturn
    \/ PrintSummary
    \/ AppClose
    \/ \E m \in SyncMessages : HandleMessage(m, NameAlice, TRUE)
    \/ SenderSends
    \/ SenderGivesUp
    \/ \E i \in 1 .. Workers : WorkerExits(i)
    \/ \E i \in 1 .. Workers : WorkerReceives(i)
    \/ \E i \in 1 .. Workers, env \in SyncEnvs, expired \in BOOLEAN :
           WorkerFinishes(i, env, expired)

SpecSync == Init /\ [][NextSync]_vars

\* what the Go runtime gives the goroutines of Sync: a goroutine that can
\* take a step takes one, a select that finds w.ctx.Done() ready again and
\* again takes that case in the end (the choice among ready cases is
\* uniformly random), and a processMediaJob in flight when w.ctx is
\* cancelled returns (its download returns once its context is cancelled)
SyncFairness ==
    /\ WF_vars(SyncWake)
    /\ WF_vars(StopCancel)
    /\ WF_vars(StopReturn)
    /\ \A i \in 1 .. Workers :
           /\ SF_vars(WorkerExits(i))
           /\ []<>~(pool.ctx = "done" /\ pool.run[i].pc = "processMediaJob")

\* the events of a run that is followed to its end
MaxStopEvents == 3

\* NextSync with fewer events
NextStop ==
    \/ \E connects \in BOOLEAN : SyncBegin(connects)
    \/ Cancel
    \/ SyncWake
    \/ StopCancel
    \/ StopReturn
    \/ PrintSummary
    \/ AppClose
    \/ \E m \in SyncMessages :
           sync.messageCount < MaxStopEvents /\ HandleMessage(m, NameAlice, TRUE)
    \/ SenderSends
    \/ SenderGivesUp
    \/ \E i \in 1 .. Workers : WorkerExits(i)
    \/ \E i \in 1 .. Workers : WorkerReceives(i)
    \/ \E i \in 1 .. Workers, env \in SyncEnvs, expired \in BOOLEAN :
           WorkerFinishes(i, env, expired)

SpecStopFair == Init /\ [][NextStop]_vars /\ SyncFairness

(***************************************************************************)
(* The pool alone, over a store that holds one message with media          *)
(***************************************************************************)
\* the status code in the text of a download error, 0 for none
StatusCodes == {0, 403, 404, 410, 500}

\* what the file system and the downloader answer to a worker of the pool
PoolEnvs == {env \in WorkerEnvs : ~env.localExists}

PoolJob == [chatJID |-> JidA, messageID |-> MsgM]

InitPool ==
    /\ chats = StoreChatRows(<<>>, JidA, NameAlice, 1)
    /\ messages = StoreMessageRows(StoreChatRows(<<>>, JidA, NameAlice, 1), <<>>,
                                   Msg(MsgM, JidA, LiveImage))
    /\ call = NoCall
    /\ prev = NoCall
    /\ pre = [chats |-> <<>>, messages |-> <<>>]
    /\ files = <<>>
    /\ dl = NoTransfer
    /\ pool = NoPool
    /\ sync = NoSync
    /\ listed = NoCall
    /\ proc = NoProc
    /\ handled = NoHandled
    /\ resolution = NoResolution

\* the jobs that ended in an error and the jobs under way a pool is
\* followed through
MaxJobs == 6

NextPool ==
    \/ Start(Workers)
    \/ /\ pool.expiredCount + pool.otherErrors + Pending(pool) < MaxJobs
       /\ Enqueue(PoolJob)
    \/ SenderSends
    \/ \E i \in DOMAIN pool.run : WorkerReceives(i)
    \/ \E i \in DOMAIN pool.run, env \in PoolEnvs, status \in StatusCodes :
           /\ env.downloadFails \/ status = 0
           /\ WorkerFinishesJob(i, env, status)

SpecPool == InitPool /\ [][NextPool]_vars

(***************************************************************************)
(* The channel and the goroutines of a pool whose downloads succeed        *)
(***************************************************************************)
\* the goroutines a pool is asked for: none, or as many as Sync asks for
RequestedWorkers == {0, Workers}

\* the jobs under way a pool is followed with
MaxPending == 5

NextQueue ==
    \/ \E workers \in RequestedWorkers : Start(workers)
    \/ /\ Pending(pool) < MaxPending
       /\ \E job \in Jobs : Enqueue(job)
    \/ SenderSends
    \/ \E i \in DOMAIN pool.run : WorkerReceives(i)
    \/ \E i \in DOMAIN pool.run : WorkerLooksUp(i)
    \/ \E i \in DOMAIN pool.run, env \in PoolEnvs :
           /\ ~env.mkdirFails /\ ~env.downloadFails
           /\ WorkerDownloads(i, env, FALSE)

SpecQueue == InitPool /\ [][NextQueue]_vars

(***************************************************************************)
(* A pool that is never cancelled, each message enqueued again only once   *)
(* its job is through                                                      *)
(***************************************************************************)
\* the jobs of five messages; only (m, a@s) has a row
FairJobs ==
    {[chatJID |-> c, messageID |-> id] :
        c \in {JidA}, id \in {MsgM, MsgN, MsgO}} \cup
    {[chatJID |-> c, messageID |-> id] : c \in {JidB}, id \in {MsgM, MsgN}}

\* the job is in the channel or with a goroutine of Enqueue
Queued(job) ==
    \/ \E k \in DOMAIN pool.jobs : pool.jobs[k] = job
    \/ \E k \in DOMAIN pool.senders : pool.senders[k] = job

\* a worker has pulled the job and is in processMediaJob with it
InHand(job) ==
    \E i \in DOMAIN pool.run :
        pool.run[i].pc = "processMediaJob" /\ pool.run[i].job = job

NextQueueFair ==
    \/ Start(Workers)
    \/ \E job \in FairJobs : ~Queued(job) /\ ~InHand(job) /\ Enqueue(job)
    \/ SenderSends
    \/ \E i \in DOMAIN pool.run : WorkerReceives(i)
    \/ \E i \in DOMAIN pool.run, env \in PoolEnvs :
           /\ ~env.mkdirFails /\ ~env.downloadFails
           /\ WorkerFinishes(i, env, FALSE)

\* what the Go runtime gives the goroutines of the pool: a goroutine
\* blocked on "w.jobs <- job" is served when a receive makes room (the
\* senders of a channel wait in a queue), a worker at its select takes a
\* job that stays in the channel, and every processMediaJob returns
QueueFairness ==
    /\ SF_vars(SenderSends)
    /\ \A i \in 1 .. Workers :
           /\ WF_vars(WorkerReceives(i))
           /\ []<>~(pool.run[i].pc = "processMediaJob")

SpecQueueFair == InitPool /\ [][NextQueueFair]_vars /\ QueueFairness

(***************************************************************************)
(* SendMessage called again and again while the clock goes on              *)
(***************************************************************************)
\* the calls of SendMessage that are followed
MaxSends == 3

SendRecipients == {<<"a">>, JidB}

SendTexts == {<<"h", "o">>, <<"h", "i">>}

\* the clock does not go back between two calls
ClockAfterSent(now) ==
    IF Sent = <<>> THEN TRUE ELSE Sent[Len(Sent)].timestamp <= now

NextSend ==
    \E recipient \in SendRecipients, message \in SendTexts, connects, sends \in BOOLEAN,
       resolved \in {EMPTY, NameAlice}, now \in Times :
        /\ Len(Sent) < MaxSends
        /\ ClockAfterSent(now)
        /\ SendMessage(recipient, message, connects, sends, resolved, now)

SpecSend == Init /\ [][NextSend]_vars

(***************************************************************************)
(* The commands of main over the chats the send command writes, a and b;  *)
(* the sync command runs without events                                    *)
(***************************************************************************)
MainQueries == {EMPTY, <<"h">>}

\* subcommand, --chat and --query of the messages command
MessagesArgs ==
    {<<"list", EMPTY, EMPTY>>, <<"list", JidA, EMPTY>>, <<"list", JidA, <<"h">>>>,
     <<"search", EMPTY, EMPTY>>}

NextMain ==
    \/ MainVersion
    \/ MainInitFails("auth")
    \/ MainUnknown("help")
    \/ \E authenticated, authenticates \in BOOLEAN : MainAuth(authenticated, authenticates)
    \/ \E a \in MessagesArgs, ran \in BOOLEAN : MainMessages(a[1], a[2], a[3], 2, 0, ran)
    \/ \E query \in MainQueries : MainContacts(query, TRUE)
    \/ \E ran \in BOOLEAN : MainChats(EMPTY, 2, 0, ran)
    \/ \E to \in {EMPTY, <<"a">>, <<"b">>}, connects \in BOOLEAN :
           MainSend(to, <<"h", "o">>, connects, connects, EMPTY, MaxTime)
    \/ \E subcommand \in {"download", "show"}, messageID \in {EMPTY, MsgM, Itoa(MaxTime)} :
           MainMedia(subcommand, messageID, JidA, EMPTY,
                     CHOOSE env \in Envs : ~env.mkdirFails /\ ~env.downloadFails)
    \/ \E connects \in BOOLEAN : SyncBegin(connects)
    \/ Cancel
    \/ SyncWake
    \/ StopCancel
    \/ \E i \in 1 .. Workers : WorkerExits(i)
    \/ StopReturn
    \/ PrintSummary
    \/ MainSync

SpecMain == Init /\ [][NextMain]_vars

(***************************************************************************)
(* ListMessages over stores of up to four messages in two chats whose     *)
(* JIDs differ in case only: messages sharing a timestamp, messages with  *)
(* and without the text asked for                                          *)
(***************************************************************************)
JidUpper == <<"A", "@", "s">>

LaterText == [TextOnly EXCEPT !.timestamp = 2]

OtherText == [TextOnly EXCEPT !.content = <<"y", "o">>, !.timestamp = 2]

QueryChats ==
    StoreChatRows(StoreChatRows(<<>>, JidA, NameAlice, 1), JidUpper, NameBob, 1)

QueryWrites ==
    {Msg(MsgM, JidA, TextOnly), Msg(MsgN, JidA, TextOnly), Msg(MsgN, JidA, OtherText),
     Msg(MsgO, JidA, LaterText), Msg(MsgM, JidUpper, TextOnly)}

\* the messages table after the writes ms, one per key
RECURSIVE StoreAll(_, _, _)
StoreAll(chts, msgs, ms) ==
    IF ms = {} THEN msgs
    ELSE StoreAll(chts, StoreMessageRows(chts, msgs, CHOOSE m \in ms : TRUE),
                  ms \ {CHOOSE m \in ms : TRUE})

QueryStores ==
    {StoreAll(QueryChats, <<>>, ms) :
        ms \in {w \in SUBSET QueryWrites :
                   \A m1, m2 \in w : MsgKey(m1) = MsgKey(m2) => m1 = m2}}

\* the pages of a chat and of a text, and first pages with the other
\* filters set
QueryParams ==
    {AppListMessagesParams(chatJID, query, limit, page) :
        chatJID \in {nil, JidA}, query \in {nil, <<"h">>}, limit \in {1, 2}, page \in 0 .. 2}
    \cup
    {[AppListMessagesParams(chatJID, nil, 2, 0) EXCEPT
          !.Sender = f[1], !.After = f[2], !.Before = f[3]] :
        chatJID \in {nil, JidA}, f \in {<<(<<"s">>), 1, NULLTIME>>, <<nil, NULLTIME, 2>>}}

InitQueries ==
    /\ chats = QueryChats
    /\ messages \in QueryStores
    /\ call = NoCall
    /\ prev = NoCall
    /\ pre = [chats |-> <<>>, messages |-> <<>>]
    /\ files = <<>>
    /\ dl = NoTransfer
    /\ pool = NoPool
    /\ sync = NoSync
    /\ listed = NoCall
    /\ proc = NoProc
    /\ handled = NoHandled
    /\ resolution = NoResolution

NextQueries == \E params \in QueryParams, ran \in BOOLEAN : ListMessages(params, ran)

SpecQueries == InitQueries /\ [][NextQueries]_vars

(***************************************************************************)
(* The handler of Sync on live messages, history syncs and other events,  *)
(* with writes the database takes and writes it refuses, next to the send *)
(* command; Sync runs to its return                                        *)
(***************************************************************************)
HandlerMessages ==
    {Msg(MsgM, JidA, TextOnly), Msg(MsgN, JidB, KeyOnly)}

\* the messages of one conversation of a history sync, with and without
\* payload
HistoryConversations ==
    {<<[msg |-> Msg(MsgM, JidA, TextOnly), payload |-> FALSE]>>,
     <<[msg |-> Msg(MsgN, JidB, KeyOnly), payload |-> TRUE]>>,
     <<[msg |-> Msg(MsgM, JidA, LiveImage), payload |-> TRUE],
       [msg |-> Msg(MsgN, JidA, LiveImage), payload |-> FALSE],
       [msg |-> Msg(MsgN, JidA, TextOnly), payload |-> TRUE]>>}

OtherEvents == {"Connected", "Disconnected", "Receipt"}

\* the database takes the writes of every record, of none, or of every
\* record but the first
StoredChoices(records) ==
    {[i \in DOMAIN records |-> TRUE], [i \in DOMAIN records |-> FALSE],
     [i \in DOMAIN records |-> i > 1]}

\* the records handled in a run that is followed to its end
MaxHandled == 3

NextHandler ==
    \/ \E connects \in BOOLEAN : SyncBegin(connects)
    \/ Cancel
    \/ SyncWake
    \/ StopCancel
    \/ StopReturn
    \/ PrintSummary
    \/ AppClose
    \/ \E m \in HandlerMessages, stored \in BOOLEAN :
           sync.messageCount < MaxHandled /\ HandleMessage(m, NameAlice, stored)
    \/ \E records \in HistoryConversations :
         \E stored \in StoredChoices(records) :
           /\ sync.messageCount + Cardinality(Payloads(records)) <= MaxHandled
           /\ HandleHistorySync(records, NameAlice, stored)
    \/ \E event \in OtherEvents : HandleOther(event)
    \/ \E connects \in BOOLEAN :
           MainSend(<<"a">>, <<"h", "o">>, connects, connects, EMPTY, MaxTime)
    \/ \E i \in 1 .. Workers : WorkerExits(i)

SpecHandler == Init /\ [][NextHandler]_vars

(***************************************************************************)
(* ResolveChatName on the JIDs of a user, a user's device, a group, a     *)
(* broadcast list and the status broadcast, with every answer of the two  *)
(* lookups and every kind of push name                                     *)
(***************************************************************************)
JidList == <<"l", "@">> \o BroadcastServer

JidStatus == StatusBroadcastUser \o <<"@">> \o BroadcastServer

JidDevice == <<"a", ":", "1", "@", "s">>

ResolveJIDs == {EMPTY, <<"x">>, JidA, JidDevice, JidGroup, JidList, JidStatus}

PushNames == {EMPTY, <<" ">>, <<"-">>, <<" ", "p", " ">>}

ResolveMsgs ==
    {[isNil |-> TRUE, PushName |-> EMPTY, Chat |-> EMPTY]}
    \cup [isNil : {FALSE}, PushName : PushNames, Chat : {JidA, JidGroup}]

GroupInfoLookups ==
    {[err |-> NoErr, isNil |-> TRUE, Name |-> EMPTY, set |-> FALSE],
     [err |-> NoErr, isNil |-> TRUE, Name |-> EMPTY, set |-> TRUE]}
    \cup [err : {NoErr, ErrQuery}, isNil : {FALSE},
          Name : {EMPTY, <<" ">>, <<" ", "G">>}, set : {TRUE}]

NoContact ==
    [err |-> NoErr, Found |-> FALSE, FullName |-> EMPTY, FirstName |-> EMPTY,
     BusinessName |-> EMPTY, PushName |-> EMPTY, RedactedPhone |-> EMPTY, set |-> TRUE]

ContactLookups ==
    {[NoContact EXCEPT !.set = FALSE],
     NoContact,
     [NoContact EXCEPT !.FullName = <<"F">>],
     [NoContact EXCEPT !.err = ErrQuery, !.Found = TRUE, !.FullName = <<"F">>],
     [NoContact EXCEPT !.Found = TRUE],
     [NoContact EXCEPT !.Found = TRUE, !.FullName = <<"F", " ">>, !.FirstName = <<"f">>],
     [NoContact EXCEPT !.Found = TRUE, !.FullName = <<" ">>, !.FirstName = <<"f">>,
                       !.BusinessName = <<"B">>],
     [NoContact EXCEPT !.Found = TRUE, !.BusinessName = <<"B">>, !.PushName = <<"p">>],
     [NoContact EXCEPT !.Found = TRUE, !.PushName = <<"p">>, !.RedactedPhone = <<"9">>],
     [NoContact EXCEPT !.Found = TRUE, !.PushName = <<"-">>, !.RedactedPhone = <<"9">>],
     [NoContact EXCEPT !.Found = TRUE, !.PushName = <<"-">>]}

InitNames ==
    /\ chats = <<>>
    /\ messages = <<>>
    /\ call = NoCall
    /\ prev = NoCall
    /\ pre = [chats |-> <<>>, messages |-> <<>>]
    /\ files = <<>>
    /\ dl = NoTransfer
    /\ pool = NoPool
    /\ sync = NoSync
    /\ listed = NoCall
    /\ proc = NoProc
    /\ handled = NoHandled
    /\ resolution \in [op : {"input"}, chatJID : ResolveJIDs, name : {EMPTY},
                       msg : ResolveMsgs, wellFormed : BOOLEAN,
                       groupInfoLookup : GroupInfoLookups,
                       contactLookup : ContactLookups]

NextNames == Resolve

SpecNames == InitNames /\ [][NextNames]_vars

(***************************************************************************)
(* SearchContacts over stores of up to 52 contacts and a group, written   *)
(* by StoreChat; the names run against the JIDs                            *)
(***************************************************************************)
Letters == Upper \o Lower

ContactJid(i) == <<Letters[i]>> \o DefaultUserServer

ContactName(i) == <<Letters[Len(Letters) + 1 - i]>>

\* the table chats after StoreChat(ContactJid(i), ContactName(i), 1) for
\* i up to n
WithContacts(n) ==
    [jid \in {ContactJid(i) : i \in 1 .. n} |->
        [name |-> ContactName(CHOOSE i \in 1 .. n : ContactJid(i) = jid),
         last_message_time |-> 1]]

ContactCounts == (0 .. 4) \cup (MaxContacts - 2 .. MaxContacts + 2)

ContactStores ==
    {WithContacts(n) : n \in ContactCounts}
    \cup {StoreChatRows(WithContacts(n), JidGroup, <<"Z">>, 1) : n \in ContactCounts}

InitContacts ==
    /\ chats \in ContactStores
    /\ messages = <<>>
    /\ call = NoCall
    /\ prev = NoCall
    /\ pre = [chats |-> <<>>, messages |-> <<>>]
    /\ files = <<>>
    /\ dl = NoTransfer
    /\ pool = NoPool
    /\ sync = NoSync
    /\ listed = NoCall
    /\ proc = NoProc
    /\ handled = NoHandled
    /\ resolution = NoResolution

NextContacts ==
    \E query \in {<<"@">>, <<"z">>, <<"g">>, <<"q">>}, ran \in BOOLEAN :
        SearchContacts(query, ran)

SpecContacts == InitContacts /\ [][NextContacts]_vars

(***************************************************************************)
(* Vocabulary of the claims                                                *)
(***************************************************************************)
\* columns the upsert merges, and columns it overwrites
MergeColumns ==
    {"filename", "direct_path", "mime_type", "media_key", "file_sha256",
     "file_enc_sha256", "file_length"}

OverwriteColumns == {"sender", "content", "timestamp", "is_from_me", "media_type", "url"}

MediaColumns == MergeColumns \cup {"media_type", "url"}

\* a column value that is non-empty (text, blob) or positive (length)
Present(column, v) ==
    IF column = "file_length" THEN v > 0 ELSE v # NULL /\ Len(v) > 0

\* the last step was a successful StoreMessage onto a row that existed
MergedWrite ==
    /\ call.op = "StoreMessage"
    /\ call.err = NoErr
    /\ MsgKey(call.args) \in DOMAIN pre.messages

\* the last two steps were StoreMessage calls with identical arguments
RepeatedStoreMessage ==
    /\ call.op = "StoreMessage"
    /\ prev.op = "StoreMessage"
    /\ prev.args = call.args

\* the last two steps were successful StoreMessage calls to one key
TwoWritesDone ==
    /\ call.op = "StoreMessage" /\ call.err = NoErr
    /\ prev.op = "StoreMessage" /\ prev.err = NoErr
    /\ MsgKey(prev.args) = MsgKey(call.args)

\* this step is a successful StoreMessage to the key of the successful
\* StoreMessage before it: W1 = call.args took pre to the current tables,
\* W2 = call'.args takes them to the next
SecondWriteStep ==
    /\ call.op = "StoreMessage" /\ call.err = NoErr
    /\ call'.op = "StoreMessage" /\ call'.err = NoErr
    /\ prev' = call
    /\ MsgKey(call'.args) = MsgKey(call.args)

\* the row W2-then-W1 leaves, from the tables W1-then-W2 started from
OtherOrderRow ==
    StoreMessageRows(pre.chats,
                     StoreMessageRows(pre.chats, pre.messages, call'.args),
                     call.args)[MsgKey(call.args)]

\* the last step was a StoreChat of a jid that had a row
ChatUpdated ==
    /\ call.op = "StoreChat"
    /\ call.args.jid \in DOMAIN pre.chats

\* a name that is neither empty nor the chat's own JID
RealName(jid, name) == name # NULL /\ name # EMPTY /\ name # jid

(***************************************************************************)
(* C1..C7: the upserts                                                     *)
(***************************************************************************)
\* C1: a StoreMessage that repeats the call before it, argument for
\* argument, leaves both tables as the first call left them (every column
\* of the row, local_path and downloaded_at included), succeeds if the
\* first did, and never fails because the key already exists.
C1_StoreMessageIdempotent ==
    RepeatedStoreMessage =>
        /\ messages = pre.messages
        /\ chats = pre.chats
        /\ call.err = prev.err
        /\ call.err # ErrAlreadyExists

C1_Witness ==
    /\ RepeatedStoreMessage
    /\ call.err = NoErr
    /\ call.args.mediaKey = KeyOne
    /\ messages[MsgKey(call.args)].local_path = PathOne
    /\ messages[MsgKey(call.args)].downloaded_at # NULLTIME

C3_NoMediaColumnErased ==
    (MergedWrite /\ \A c \in {"media_type", "url", "direct_path", "media_key"} :
                        Present(c, pre.messages[MsgKey(call.args)][c]))
        => \A c \in MediaColumns :
               Present(c, pre.messages[MsgKey(call.args)][c])
                   => Present(c, messages[MsgKey(call.args)][c])

C5_NameMonotonic ==
    ChatUpdated =>
        LET jid == call.args.jid
            old == pre.chats[jid].name
            new == chats[jid].name
            in == call.args.name
        IN  /\ RealName(jid, old) =>
                   /\ RealName(jid, new)
                   /\ new = (IF RealName(jid, in) THEN in ELSE old)
            /\ (~RealName(jid, old) /\ RealName(jid, in)) => new = in

C5_Witness ==
    /\ ChatUpdated
    /\ pre.chats[call.args.jid].name = NameAlice
    /\ call.args.name = call.args.jid
    /\ chats[call.args.jid].name = NameAlice
    /\ prev.op = "StoreChat" /\ prev.args.name = NameAlice

\* C6 as stated: the stored last-message time of a chat never moves
\* backwards.
C6_LastMessageTimeNeverDecreases ==
    ChatUpdated =>
        chats[call.args.jid].last_message_time
            >= pre.chats[call.args.jid].last_message_time

\* C7: a StoreChat of an existing chat leaves last_message_time equal to
\* the time passed in, whether that is later or earlier than the stored one.
C7_LastMessageTimeIsArgument ==
    ChatUpdated =>
        chats[call.args.jid].last_message_time = call.args.lastMessageTime

C7_Witness ==
    /\ ChatUpdated
    /\ call.args.lastMessageTime < pre.chats[call.args.jid].last_message_time
    /\ chats[call.args.jid].last_message_time = call.args.lastMessageTime

(***************************************************************************)
(* Vocabulary of the download claims.  The tables a lookup or a download   *)
(* started from are pre.                                                   *)
(***************************************************************************)
Lookup == call.op = "GetMessageForDownload"

Download == call.op = "DownloadMedia"

\* the chats in which a message ID is stored
ChatsHolding(id) == {k[2] : k \in {key \in DOMAIN pre.messages : key[1] = id}}

\* the stored rows a download request designates: the trimmed ID, in the
\* chat asked for or in any chat
Designated ==
    {k \in DOMAIN pre.messages :
        /\ k[1] = TrimSpace(call.args.messageID)
        /\ call.args.chatJID \in {nil, k[2]}}

Blank(text) == TrimSpace(text) = <<>>

\* a stored row without a media type, a direct path or a media key
LacksMedia(row) ==
    \/ Blank(row.media_type)
    \/ Blank(row.direct_path)
    \/ row.media_key \in {NULL, EMPTY}

\* the download request designates one stored row, and it lacks media
DownloadOfBareMessage ==
    /\ Download
    /\ Cardinality(Designated) = 1
    /\ \A k \in Designated : LacksMedia(pre.messages[k])

\* the columns of a row as GetMessageForDownload hands them over
SameRow(info, row) ==
    /\ info.MediaType = row.media_type
    /\ info.Filename = row.filename
    /\ info.DirectPath = row.direct_path
    /\ info.MimeType = row.mime_type
    /\ info.URL = row.url
    /\ info.MediaKey = row.media_key
    /\ info.FileSHA256 = row.file_sha256
    /\ info.FileEncSHA256 = row.file_enc_sha256
    /\ info.Sender = row.sender
    /\ info.Content = row.content
    /\ info.MessageTime = row.timestamp
    /\ info.IsFromMe = row.is_from_me

(***************************************************************************)
(* C8..C10: the lookup and the download command                            *)
(***************************************************************************)
\* C8: GetMessageForDownload(id, nil) returns the ambiguity error, which is
\* neither a row nor sql.ErrNoRows, whenever the id is stored in more than
\* one chat; GetMessageForDownload(id, chat) returns the row stored under
\* (id, chat) when there is one; and a lookup that matches no row returns
\* sql.ErrNoRows.
C8_LookupResolvesOrSaysWhy ==
    Lookup =>
        LET id == call.args.id
            chat == call.args.chatJID
            holding == ChatsHolding(id)
        IN  /\ (chat = nil /\ Cardinality(holding) > 1) =>
                   /\ call.err = ErrMultiple
                   /\ call.err \notin {NoErr, ErrNoRows}
                   /\ call.info = ZeroInfo
            /\ (chat # nil /\ chat \in holding) =>
                   /\ call.err = NoErr
                   /\ call.info.ID = id
                   /\ call.info.ChatJID = chat
                   /\ SameRow(call.info, pre.messages[<<id, chat>>])
            /\ (IF chat = nil THEN holding = {} ELSE chat \notin holding) =>
                   call.err = ErrNoRows

\* the ID lives in both chats and the lookup names no chat
C8_Witness ==
    /\ Lookup
    /\ call.args.chatJID = nil
    /\ ChatsHolding(call.args.id) = JIDs
    /\ call.err = ErrMultiple

\* C9: DownloadMedia on a stored message whose media type, direct path or
\* media key is empty (or blank) fails with the "no downloadable media"
\* error; neither the media downloader nor MarkMediaDownloaded is invoked
\* and the messages table is left as it was.
C9_NoDownloadWithoutMedia ==
    DownloadOfBareMessage =>
        /\ call.err = ErrNoMedia
        /\ \A i \in DOMAIN call.effects :
               call.effects[i] \notin {"mediaDownloader", "MarkMediaDownloaded"}
        /\ messages = pre.messages

\* the stored row kept its direct path and its media key and lost only its
\* media type
C9_Witness ==
    /\ DownloadOfBareMessage
    /\ \E k \in Designated :
           /\ pre.messages[k].media_type = EMPTY
           /\ ~Blank(pre.messages[k].direct_path)
           /\ BlobPresent(pre.messages[k].media_key)
    /\ call.err = ErrNoMedia

\* C10: DownloadMedia with an empty or whitespace-only message ID fails with
\* the "required" error before any store or client operation is invoked;
\* with a message ID that no stored row carries it fails with the "not
\* found" error, which is neither the "no downloadable media" error nor an
\* error of the store.
C10_RequiredThenNotFound ==
    Download =>
        /\ Blank(call.args.messageID) =>
               /\ call.err = ErrRequired
               /\ call.effects = <<>>
               /\ messages = pre.messages
        /\ (~Blank(call.args.messageID) /\ Designated = {}) =>
               /\ call.err = ErrNotFound
               /\ call.err \notin {ErrNoMedia, ErrNoRows, ErrMultiple}

\* a whitespace-only ID is refused although the store holds messages
C10_Witness ==
    /\ Download
    /\ call.args.messageID = <<" ">>
    /\ pre.messages # <<>>
    /\ call.err = ErrRequired
    /\ call.effects = <<>>

\* an ID that is absent once trimmed
C10_WitnessNotFound ==
    /\ Download
    /\ call.args.messageID = MsgN
    /\ pre.messages # <<>>
    /\ call.err = ErrNotFound

(***************************************************************************)
(* C11..: download attempts and the worker pool                            *)
(***************************************************************************)
\* the last step was a download attempt, by the command or by a worker
Attempt == call.op \in {"DownloadMedia", "processMediaJob"}

Invoked(collaborator) == \E i \in DOMAIN call.effects : call.effects[i] = collaborator

\* the key of the row an attempt looked up
AttemptKey == <<call.info.ID, call.info.ChatJID>>

\* a row that no download has been recorded for
PendingDownload(row) == row.local_path = NULL /\ row.downloaded_at = NULLTIME

\* C11: a download attempt, by the command or by a worker, calls
\* MarkMediaDownloaded exactly when the downloader returned success, and
\* then with the resolved final path; in every other case (directory
\* creation or downloader failed, or neither was reached) the messages
\* table is left as it was, local_path and downloaded_at included.
C11_MarkExactlyOnSuccess ==
    Attempt =>
        /\ Invoked("MarkMediaDownloaded") <=> call.downloaded
        /\ call.downloaded =>
               /\ call.path = resolveOutputPath(call.info, call.args.outputPath, FALSE)
               /\ messages[AttemptKey].local_path = call.path
               /\ messages[AttemptKey].downloaded_at # NULLTIME
               /\ \A k \in DOMAIN messages \ {AttemptKey} : messages[k] = pre.messages[k]
        /\ ~call.downloaded => messages = pre.messages

\* a worker's attempt failed in the downloader and left the row pending,
\* after an attempt that failed in the directory creation
C11_Witness ==
    /\ call.op = "processMediaJob"
    /\ Invoked("mediaDownloader")
    /\ ~call.downloaded
    /\ call.err = ErrDownload
    /\ PendingDownload(messages[AttemptKey])
    /\ prev.op = "DownloadMedia"
    /\ prev.err = ErrMkdir

\* the steps of DownloadMediaToFile that succeeded so far
Did(step) == \E i \in DOMAIN dl.steps : dl.steps[i] = step

\* the file system as the call found it, the temporary file apart
OnlyTempDiffers ==
    /\ DOMAIN files \ {dl.tmpName} = DOMAIN dl.before
    /\ \A f \in DOMAIN dl.before : files[f] = dl.before[f]

\* C12: DownloadMediaToFile writes to a temporary file of the destination
\* directory only; it renames that file onto the target path only after the
\* fetch, the flush and the close succeeded; and when it returns an error
\* from the creation, the fetch, the flush, the close or the rename, the
\* target path is absent or holds its previous bytes and the temporary file
\* is gone.
C12_TempThenRename ==
    dl.pc # "idle" =>
        /\ dl.tmpName # nil => filepathDir(dl.tmpName) = filepathDir(dl.target)
        /\ dl.pc \in {"fetch", "flush", "close", "rename"} =>
               dl.tmpName \in DOMAIN files /\ OnlyTempDiffers
        /\ Did("rename") => Did("fetch") /\ Did("flush") /\ Did("close")
        /\ Did("rename") => files[dl.target] = Media
        /\ (dl.pc = "returned" /\ dl.err \notin {NoErr, ErrStat}) => files = dl.before

\* the fetch failed after bytes had reached the temporary file, and the
\* target still holds what it held
C12_Witness ==
    /\ dl.pc = "returned"
    /\ dl.err = ErrFetch
    /\ Did("write")
    /\ dl.target \in DOMAIN files
    /\ files = dl.before

\* the job a worker just processed, as the key of the messages table
JobKey == <<call.args.messageID, call.args.chatJID>>

\* C13 as stated: a worker processing a media job does not invoke the
\* downloader for a message whose stored row lacks the media type, the
\* direct path or the media key, and such a row stays pending.
C13_WorkerSkipsIncompleteRow ==
    (/\ call.op = "processMediaJob"
     /\ JobKey \in DOMAIN pre.messages
     /\ LacksMedia(pre.messages[JobKey]))
        => /\ ~Invoked("mediaDownloader")
           /\ PendingDownload(pre.messages[JobKey]) => PendingDownload(messages[JobKey])

(***************************************************************************)
(* C14..C19: the worker pool and Sync                                      *)
(***************************************************************************)
\* an event can be delivered: the handler is registered and the client is
\* connected (and the run has events left)
Deliverable ==
    sync.registered /\ sync.connected /\ sync.messageCount < MaxEvents

\* C14: Enqueue returns to its caller without waiting, whatever the queue
\* and the workers are doing: whenever an event can be delivered, the
\* handler, its Enqueue included, can run to its end at once.
C14_EnqueueReturnsAtOnce ==
    Deliverable =>
        /\ EnqueueChoices(pool) # {}
        /\ \A m \in SyncMessages : ENABLED HandleMessage(m, NameAlice, TRUE)

\* an Enqueue found the channel full and every worker inside
\* processMediaJob, and returned leaving the job to a goroutine
C14_Witness ==
    /\ pool.ctx = "live"
    /\ Len(pool.jobs) = Capacity
    /\ \A i \in 1 .. Workers : pool.run[i].pc = "processMediaJob"
    /\ pool.senders # <<>>

\* the step is the handler run on an event
HandlerStep == sync'.messageCount = sync.messageCount + 1

\* C15 as stated: an Enqueue made after the pool's context is cancelled
\* adds no job to the queue, even when the queue has room.
C15_NoJobAcceptedAfterCancel ==
    [][(HandlerStep /\ pool.ctx = "done") => pool'.jobs = pool.jobs]_vars

\* C16: the summary is reported only after Stop returned, Stop returns
\* only after every worker goroutine exited, and from the report on no
\* job is being processed and the counters stay what was reported.
C16_SummaryAfterAllExited ==
    /\ sync.pc \in {"summary", "returned"} => AllExited(pool)
    /\ pool.summary # nil =>
           /\ sync.pc = "returned"
           /\ AllExited(pool)
           /\ pool.summary = <<pool.expiredCount, pool.otherErrors>>

\* the summary was reported with errors counted and a job left in the
\* channel, and an event was handled after it
C16_Witness ==
    /\ pool.summary # nil
    /\ pool.expiredCount > 0
    /\ pool.otherErrors > 0
    /\ pool.jobs # <<>>
    /\ sync.result.success
    /\ sync.messageCount > sync.result.data.messages_count

\* C17: once w.ctx is cancelled every worker eventually exits, and once
\* the context of a started Sync is cancelled Stop eventually returns,
\* whatever is queued or in flight.
C17_StopTerminates ==
    /\ (pool.ctx = "done") ~> AllExited(pool)
    /\ (sync.cancelled /\ sync.pc # "idle") ~> (sync.pc \in {"summary", "returned"})

\* Stop returned after a cancellation that left a job in the channel
C17_Witness ==
    /\ sync.pc = "summary"
    /\ sync.cancelled
    /\ AllExited(pool)
    /\ pool.jobs # <<>>
    /\ pool.expiredCount + pool.otherErrors > 0

\* C18 as stated: an event delivered to the handler after the context of
\* Sync is cancelled writes neither table, enqueues nothing and leaves the
\* message count alone.
C18_NoEventAcceptedAfterCancel ==
    [][(sync.cancelled /\ \E m \in SyncMessages : HandleMessage(m, NameAlice, TRUE))
          => /\ chats' = chats
             /\ messages' = messages
             /\ pool' = pool
             /\ sync'.messageCount = sync.messageCount]_vars

C19_WitnessError ==
    /\ sync.pc = "returned"
    /\ ~sync.result.success
    /\ ~sync.cancelled

(***************************************************************************)
(* C20: the JSON result of the list commands                               *)
(***************************************************************************)
ListCall == listed.op \in {"ListMessages", "ListChats", "SearchContacts"}

\* C20 as stated: a list command whose query ran and gave no row answers
\* success:true with data an empty array, not null; one whose query failed
\* answers success:false with data null and a non-empty error.
C20_EmptyListIsArray ==
    ListCall =>
        /\ (listed.err = NoErr /\ listed.result.data.array = <<>>) =>
               listed.result.success /\ ~listed.result.data.null
        /\ listed.err # NoErr =>
               /\ ~listed.result.success
               /\ listed.result.data.null
               /\ listed.result.error \notin {"null", ""}

(***************************************************************************)
(* C21.  The exit status of the process is 0 exactly when the JSON result *)
(* of the command has success:true, and 1 whenever it has success:false,  *)
(* the failures returned by Auth, Sync, SendMessage, DownloadMedia and    *)
(* the list commands included.                                             *)
(***************************************************************************)
C21_ExitStatusFollowsSuccess ==
    proc.ran =>
        /\ proc.exit = 0 <=> proc.result.success
        /\ ~proc.result.success => proc.exit = 1

(***************************************************************************)
(* C22.  The messages command applies its filters as a conjunction: with  *)
(* a chat and a query every message returned is of that chat and contains *)
(* the query; the query never widens the result beyond the chat.           *)
(***************************************************************************)
C22_FiltersAreConjunction ==
    (/\ proc.command = "messages"
     /\ proc.result.success
     /\ proc.args.chat # EMPTY
     /\ proc.args.query # EMPTY)
        => \A i \in DOMAIN proc.result.data.array :
               /\ proc.result.data.array[i].ChatJID = proc.args.chat
               /\ Like(proc.result.data.array[i].Content, Containing(proc.args.query))

(***************************************************************************)
(* C23, C24: the pages and the chat filter of ListMessages                 *)
(***************************************************************************)
\* a ListMessages whose query ran
Listing == listed.op = "ListMessages" /\ listed.err = NoErr

\* the scan orders of SQLite that explain the page returned
ScanOrders ==
    {order \in MessageOrders(chats, messages, listed.args) :
        ListMessagesPage(chats, messages, listed.args, order).elems
            = listed.result.data.array}

\* page p of the same query over the scan order
PageRows(order, p) ==
    ListMessagesPage(chats, messages, [listed.args EXCEPT !.Page = p], order).elems

RECURSIVE PagesUpTo(_, _)
PagesUpTo(order, p) ==
    IF p < 0 THEN <<>> ELSE PagesUpTo(order, p - 1) \o PageRows(order, p)

\* C23: with a limit L > 0 the pages 0, 1, 2, ... of ListMessages are
\* pairwise disjoint, hold every matching message exactly once and at most
\* L messages each, and read one after the other they are ordered by
\* timestamp descending, also when messages share a timestamp.
C23_PagesPartition ==
    (Listing /\ listed.args.Limit > 0) =>
        \A order \in ScanOrders :
            /\ \A p \in 0 .. Len(order) : Len(PageRows(order, p)) <= listed.args.Limit
            /\ \A p, q \in 0 .. Len(order) :
                   p # q => \A i \in DOMAIN PageRows(order, p),
                               j \in DOMAIN PageRows(order, q) :
                                <<PageRows(order, p)[i].ID, PageRows(order, p)[i].ChatJID>>
                                    # <<PageRows(order, q)[j].ID,
                                        PageRows(order, q)[j].ChatJID>>
            /\ {<<r.ID, r.ChatJID>> : r \in {PagesUpTo(order, Len(order))[i] :
                                               i \in DOMAIN PagesUpTo(order, Len(order))}}
                   = MatchingMessages(chats, messages, listed.args)
            /\ Len(PagesUpTo(order, Len(order)))
                   = Cardinality(MatchingMessages(chats, messages, listed.args))
            /\ \A i, j \in DOMAIN PagesUpTo(order, Len(order)) :
                   i < j => PagesUpTo(order, Len(order))[i].Timestamp
                               >= PagesUpTo(order, Len(order))[j].Timestamp

\* three messages match, two of them of one timestamp, and the page
\* returned is the second of two
C23_Witness ==
    /\ Listing
    /\ listed.args.Limit = 2
    /\ listed.args.Page = 1
    /\ Len(listed.result.data.array) = 1
    /\ Cardinality(MatchingMessages(chats, messages, listed.args)) = 3
    /\ \E k1, k2 \in MatchingMessages(chats, messages, listed.args) :
           k1 # k2 /\ messages[k1].timestamp = messages[k2].timestamp

\* C24: ListMessages with a chat filter returns only messages whose
\* chat_jid is that JID exactly, whatever other chats hold and whatever
\* other filters are set.
C24_ChatFilterExact ==
    (Listing /\ listed.args.ChatJID # nil) =>
        \A i \in DOMAIN listed.result.data.array :
            listed.result.data.array[i].ChatJID = listed.args.ChatJID

\* messages of chat a are returned while the chat whose JID differs in
\* case holds a message that passes the other filter set
C24_Witness ==
    /\ Listing
    /\ listed.args.ChatJID = JidA
    /\ listed.args.Query # nil
    /\ listed.result.data.array # <<>>
    /\ \E k \in DOMAIN messages :
           /\ k[2] = JidUpper
           /\ Like(messages[k].content, Containing(listed.args.Query))

\* the same with the sender and the time filters set
C24_WitnessSender ==
    /\ Listing
    /\ listed.args.ChatJID = JidA
    /\ listed.args.Sender # nil
    /\ listed.args.After # NULLTIME
    /\ listed.result.data.array # <<>>
    /\ \E k \in DOMAIN messages : k[2] = JidUpper

(***************************************************************************)
(* C25: SearchContacts                                                     *)
(***************************************************************************)
\* a <= b byte by byte
RECURSIVE NameLE(_, _)
NameLE(a, b) ==
    IF a = <<>> THEN TRUE
    ELSE IF b = <<>> THEN FALSE
    ELSE IF Head(a) # Head(b) THEN CharCode(Head(a)) < CharCode(Head(b))
    ELSE NameLE(Tail(a), Tail(b))

\* C25: SearchContacts never returns a chat whose JID ends in @g.us, even
\* when its name or JID matches the query, never returns more than 50
\* results, and returns them ordered by name.
C25_ContactsNoGroupsCappedOrdered ==
    (listed.op = "SearchContacts" /\ listed.err = NoErr) =>
        /\ \A i \in DOMAIN listed.result.data.array :
               ~HasSuffix(listed.result.data.array[i].JID, GroupSuffix)
        /\ Len(listed.result.data.array) <= 50
        /\ \A i, j \in DOMAIN listed.result.data.array :
               i < j => NameLE(listed.result.data.array[i].Name,
                               listed.result.data.array[j].Name)

\* more than 50 contacts and a group match the query; 50 are returned
C25_Witness ==
    /\ listed.op = "SearchContacts"
    /\ listed.err = NoErr
    /\ Len(listed.result.data.array) = 50
    /\ JidGroup \in DOMAIN chats
    /\ Like(JidGroup, Containing(listed.args.Query))
    /\ Cardinality({jid \in DOMAIN chats : Like(jid, Containing(listed.args.Query))}) > 51

(***************************************************************************)
(* C26.  In every reachable state of the store the chat_jid of each       *)
(* message row is the jid of a chat row: a StoreMessage for a chat JID    *)
(* without a chat row inserts nothing, and a StoreMessage that succeeds   *)
(* found the chat row there (none creates it together with the message).  *)
(***************************************************************************)
C26_MessageHasChat ==
    /\ \A k \in DOMAIN messages : k[2] \in DOMAIN chats
    /\ (call.op = "StoreMessage" /\ call.args.chatJID \notin DOMAIN pre.chats) =>
           /\ messages = pre.messages
           /\ call.err # NoErr
    /\ (call.op = "StoreMessage" /\ call.err = NoErr) =>
           /\ call.args.chatJID \in DOMAIN pre.chats
           /\ MsgKey(call.args) \in DOMAIN messages

\* a message was refused for its missing chat while the store holds a
\* message of the other chat
C26_Witness ==
    /\ call.op = "StoreMessage"
    /\ call.args.chatJID \notin DOMAIN chats
    /\ call.err = ErrForeignKey
    /\ messages # <<>>

\* a message was inserted into an existing chat
C26_WitnessInserted ==
    /\ call.op = "StoreMessage"
    /\ call.err = NoErr
    /\ MsgKey(call.args) \notin DOMAIN pre.messages
    /\ MsgKey(call.args) \in DOMAIN messages

(***************************************************************************)
(* C27.  ResolveChatName follows one priority for every input: for a      *)
(* group JID the group-info name when the lookup yields a non-blank one,  *)
(* for a non-group JID the contact name when the lookup yields one;       *)
(* otherwise the push name of the event when there is one, not blank and  *)
(* not "-"; otherwise the raw chat JID; and the name of a non-empty JID   *)
(* is never empty.  A lookup yields nothing when it is not there, when it *)
(* fails, or when the JID does not parse to ask it.                        *)
(***************************************************************************)
\* the group-info lookup yields a non-blank name
GroupYields(r) ==
    /\ r.groupInfoLookup.set
    /\ r.groupInfoLookup.err = NoErr
    /\ ~r.groupInfoLookup.isNil
    /\ ~Blank(r.groupInfoLookup.Name)

\* the contact lookup yields a name
ContactYields(r) ==
    /\ r.contactLookup.set
    /\ r.contactLookup.err = NoErr
    /\ r.contactLookup.Found
    /\ \/ ~Blank(r.contactLookup.FullName)
       \/ ~Blank(r.contactLookup.FirstName)
       \/ ~Blank(r.contactLookup.BusinessName)
       \/ ~Blank(r.contactLookup.PushName) /\ TrimSpace(r.contactLookup.PushName) # <<"-">>
       \/ ~Blank(r.contactLookup.RedactedPhone)

\* the name the priority gives for the call r, group telling whether the
\* JID counts as a group
NameByPriority(r, group) ==
    LET jid == IF r.chatJID = EMPTY /\ ~r.msg.isNil THEN r.msg.Chat ELSE r.chatJID
        parses == ParseJID(jid, r.wellFormed).err = NoErr
    IN  IF parses /\ group /\ GroupYields(r) THEN TrimSpace(r.groupInfoLookup.Name)
        ELSE IF parses /\ ~group /\ ContactYields(r) THEN bestContactName(r.contactLookup)
        ELSE IF ~r.msg.isNil /\ ~Blank(r.msg.PushName) /\ TrimSpace(r.msg.PushName) # <<"-">>
        THEN TrimSpace(r.msg.PushName)
        ELSE jid

\* the JID parsed for the call r
ParsedOf(r) == ParseJID(ResolvedJID(r.chatJID, r.msg), r.wellFormed)

\* as stated: a group JID is a JID of the group server
C27_FixedPriority ==
    resolution.op = "ResolveChatName" =>
        /\ resolution.name =
               NameByPriority(resolution, ParsedOf(resolution).Server = GroupServer)
        /\ ResolvedJID(resolution.chatJID, resolution.msg) # EMPTY => resolution.name # EMPTY

\* C27 amended: a broadcast list is asked for its group-info name like a
\* group, never for a contact name
C27_FixedPriorityWithLists ==
    resolution.op = "ResolveChatName" =>
        /\ resolution.name =
               NameByPriority(resolution,
                              \/ ParsedOf(resolution).Server = GroupServer
                              \/ IsBroadcastList(ParsedOf(resolution)))
        /\ ResolvedJID(resolution.chatJID, resolution.msg) # EMPTY => resolution.name # EMPTY

\* the name of a broadcast list came from the group-info lookup although
\* the contact lookup and the push name had one too
C27_Witness ==
    /\ resolution.op = "ResolveChatName"
    /\ resolution.chatJID = JidList
    /\ GroupYields(resolution)
    /\ ContactYields(resolution)
    /\ ~resolution.msg.isNil
    /\ ~Blank(resolution.msg.PushName)
    /\ resolution.name = TrimSpace(resolution.groupInfoLookup.Name)

\* a contact whose only name is the push name "-" and an event whose push
\* name is blank: the raw JID is the name
C27_WitnessFallback ==
    /\ resolution.op = "ResolveChatName"
    /\ resolution.chatJID = JidA
    /\ resolution.contactLookup.Found
    /\ resolution.contactLookup.PushName = <<"-">>
    /\ ~ContactYields(resolution)
    /\ ~resolution.msg.isNil
    /\ resolution.msg.PushName = <<" ">>
    /\ resolution.name = JidA

(***************************************************************************)
(* C28.  Every StoreMessage the handler of Sync (live message and history *)
(* sync) or SendMessage issues comes right after a StoreChat for the same *)
(* chat JID in the same run of the handler or of SendMessage, so a        *)
(* message row such a run leaves has its chat row.                         *)
(***************************************************************************)
C28_ChatStoredBeforeMessage ==
    \A i \in DOMAIN handled.calls :
        handled.calls[i].op = "StoreMessage" =>
            /\ i > 1
            /\ handled.calls[i - 1].op = "StoreChat"
            /\ handled.calls[i - 1].msg.chatJID = handled.calls[i].msg.chatJID
            /\ MsgKey(handled.calls[i].msg) \in DOMAIN messages =>
                   handled.calls[i].msg.chatJID \in DOMAIN chats

\* a history sync stored two messages of a chat, each after its StoreChat
C28_Witness ==
    /\ handled.event = "HistorySync"
    /\ Cardinality({i \in DOMAIN handled.calls : handled.calls[i].op = "StoreMessage"}) = 2
    /\ \A i \in DOMAIN handled.calls :
           handled.calls[i].op = "StoreMessage" =>
               MsgKey(handled.calls[i].msg) \in DOMAIN messages

\* a live message of a chat without a row was stored
C28_WitnessLive ==
    /\ handled.event = "Message"
    /\ handled.calls[2].op = "StoreMessage"
    /\ handled.calls[2].msg.chatJID = JidB
    /\ <<MsgN, JidB>> \in DOMAIN messages

\* the send command stored its message
C28_WitnessSend ==
    /\ handled.event = "SendMessage"
    /\ handled.calls[2].op = "StoreMessage"
    /\ MsgKey(handled.calls[2].msg) \in DOMAIN messages

(***************************************************************************)
(* C29.  During sync a media job is enqueued for a record whenever the    *)
(* record carries a media descriptor (its media type is set), never for a *)
(* text-only record, and only after the StoreChat and the StoreMessage of *)
(* the record.                                                             *)
(***************************************************************************)
C29_EnqueuedIffDescriptor ==
    handled.event \in {"Message", "HistorySync"} =>
        \A i \in DOMAIN handled.calls :
            /\ handled.calls[i].op = "StoreMessage" =>
                   (handled.calls[i].msg.mediaType # EMPTY
                    <=> /\ i < Len(handled.calls)
                        /\ handled.calls[i + 1].op = "Enqueue"
                        /\ handled.calls[i + 1].msg = handled.calls[i].msg)
            /\ handled.calls[i].op = "Enqueue" =>
                   /\ i > 2
                   /\ handled.calls[i - 1].op = "StoreMessage"
                   /\ handled.calls[i - 1].msg = handled.calls[i].msg
                   /\ handled.calls[i - 2].op = "StoreChat"
                   /\ handled.calls[i - 2].msg.chatJID = handled.calls[i].msg.chatJID

\* what the handler does: a job for, and only for, a record with a direct
\* path and a media key, after the two writes of the record
EnqueuedIffDownloadable ==
    handled.event \in {"Message", "HistorySync"} =>
        \A i \in DOMAIN handled.calls :
            /\ handled.calls[i].op = "StoreMessage" =>
                   (handled.calls[i].msg.directPath # EMPTY
                        /\ BlobLen(handled.calls[i].msg.mediaKey) > 0
                    <=> /\ i < Len(handled.calls)
                        /\ handled.calls[i + 1].op = "Enqueue"
                        /\ handled.calls[i + 1].msg = handled.calls[i].msg)
            /\ handled.calls[i].op = "Enqueue" =>
                   /\ i > 2
                   /\ handled.calls[i - 1].op = "StoreMessage"
                   /\ handled.calls[i - 1].msg = handled.calls[i].msg
                   /\ handled.calls[i - 2].op = "StoreChat"
                   /\ handled.calls[i - 2].msg.chatJID = handled.calls[i].msg.chatJID

(***************************************************************************)
(* C30.  The messages_count of the result Sync returns is the number of   *)
(* records the handler has processed when Sync returns: one for every     *)
(* live message and one for every message of a history sync with a        *)
(* payload, re-deliveries and refused writes included; other events do    *)
(* not count.                                                              *)
(***************************************************************************)
C30_CountIsRecordsHandled ==
    [][(sync.pc = "summary" /\ sync'.pc = "returned" /\ sync'.result.success) =>
           sync'.result.data.messages_count = handled'.records]_vars

\* what Sync returns: the records processed when the result was built, at
\* the end of the wait for the context
CountIsRecordsAtWake ==
    [][(sync.pc = "waiting" /\ sync'.pc = "stopping") =>
           sync'.result.data.messages_count = handled.records]_vars

\* the running count is the number of records processed; an event that is
\* no message leaves it alone
CountIsRunning ==
    /\ sync.messageCount = handled.records
    /\ handled.event \in OtherEvents => handled.calls = <<>>

(***************************************************************************)
(* C31.  A StoreChat or StoreMessage that fails for one message does not  *)
(* end the run of Sync: every record of the event that carries a payload  *)
(* gets its two writes, the writes the database takes leave their rows,   *)
(* and the handler goes on counting, so later events are handled alike.   *)
(***************************************************************************)
C31_FailedWriteDoesNotAbort ==
    handled.event \in {"Message", "HistorySync"} =>
        /\ Cardinality({i \in DOMAIN handled.calls : handled.calls[i].op = "StoreMessage"})
               = handled.batch
        /\ \A i \in DOMAIN handled.calls :
               (handled.calls[i].op = "StoreMessage" /\ i \notin handled.failed) =>
                   MsgKey(handled.calls[i].msg) \in DOMAIN messages
        /\ sync.messageCount = handled.records
        /\ sync.registered

\* the writes of the first record of a history sync failed, the record
\* after it was stored, and the failed one counts
C31_Witness ==
    /\ handled.event = "HistorySync"
    /\ handled.failed = {1, 2}
    /\ handled.batch = 2
    /\ <<MsgM, JidA>> \notin DOMAIN messages
    /\ <<MsgN, JidA>> \in DOMAIN messages
    /\ sync.messageCount = handled.records

\* a live message was stored after the writes of an earlier event failed
C31_WitnessLater ==
    /\ handled.event = "Message"
    /\ handled.failed = {}
    /\ handled.records = 3
    /\ DOMAIN messages = {<<MsgM, JidA>>}

(***************************************************************************)
(* C32..C40: the worker's job, its counters, the queue and the sends       *)
(***************************************************************************)
\* the row the job names, as the worker's lookup found it, gives nothing to
\* download: it is gone, its direct path or media key is empty, or its
\* recorded local path is a file that exists
JobHasNothingToDo ==
    \/ JobKey \notin DOMAIN pre.messages
    \/ /\ JobKey \in DOMAIN pre.messages
       /\ \/ Blank(pre.messages[JobKey].direct_path)
          \/ pre.messages[JobKey].media_key \in {NULL, EMPTY}
          \/ pre.messages[JobKey].local_path # NULL /\ call.localExists

\* the collaborators an attempt invoked after its lookup
AfterLookup == Tail(call.effects)

\* C32: a worker that pulled a job reads the message row again; when the
\* row is gone, when its direct path or media key is empty, or when a local
\* path is recorded and that file exists, it invokes nothing more, writes
\* nothing to the store and returns no error; otherwise it resolves the
\* path, then creates the directory and invokes the downloader, then calls
\* MarkMediaDownloaded with the resolved path, in that order, going no
\* further than the first of them that fails.
C32_SkipOrDownloadInOrder ==
    call.op = "processMediaJob" =>
        /\ Head(call.effects) = "GetMessageForDownload"
        /\ JobHasNothingToDo =>
               /\ AfterLookup = <<>>
               /\ messages = pre.messages
               /\ call.err = NoErr
        /\ ~JobHasNothingToDo =>
               /\ AfterLookup \in {<<"MkdirAll">>, <<"MkdirAll", "mediaDownloader">>,
                                   <<"MkdirAll", "mediaDownloader", "MarkMediaDownloaded">>}
               /\ Len(AfterLookup) < 3 <=> call.err # NoErr
               /\ Len(AfterLookup) = 3 =>
                      /\ call.path = resolveOutputPath(call.info, EMPTY, FALSE)
                      /\ messages[JobKey].local_path = call.path

\* a worker found the local path of an earlier download and its file, and
\* left the row as it was
C32_Witness ==
    /\ call.op = "processMediaJob"
    /\ JobKey \in DOMAIN pre.messages
    /\ pre.messages[JobKey].local_path # NULL
    /\ call.localExists
    /\ call.effects = <<"GetMessageForDownload">>
    /\ messages = pre.messages

\* a worker found a recorded local path whose file is gone, and downloaded
\* the media again
C32_WitnessAgain ==
    /\ call.op = "processMediaJob"
    /\ JobKey \in DOMAIN pre.messages
    /\ pre.messages[JobKey].local_path # NULL
    /\ ~call.localExists
    /\ call.effects = <<"GetMessageForDownload", "MkdirAll", "mediaDownloader",
                        "MarkMediaDownloaded">>

\* the job named a message that is not stored
C32_WitnessGone ==
    /\ call.op = "processMediaJob"
    /\ JobKey \notin DOMAIN pre.messages
    /\ call.effects = <<"GetMessageForDownload">>
    /\ call.err = NoErr
    /\ DOMAIN messages # {}

\* the first n elements of a sequence, all of them when it has fewer
FirstOf(seq, n) == SubSeq(seq, 1, IF Len(seq) < n THEN Len(seq) ELSE n)

\* C33: every job that ends in an error adds one to exactly one counter,
\* expiredCount when the text of the error carries status code 403, 404 or
\* 410 and otherErrors otherwise, and a job that ends without error adds
\* nothing; the sample of other errors never holds more than 5 texts nor
\* more than otherErrors, and it holds the first other errors, in order.
C33_OneCounterPerError ==
    /\ Len(pool.otherErrorMsgs) <= 5
    /\ Len(pool.otherErrorMsgs) <= pool.otherErrors
    /\ call.op = "run" =>
           /\ pool.expiredCount =
                  call.before.expiredCount
                      + (IF call.err # NoErr /\ call.status \in {403, 404, 410} THEN 1 ELSE 0)
           /\ pool.otherErrors =
                  call.before.otherErrors
                      + (IF call.err # NoErr /\ call.status \notin {403, 404, 410} THEN 1 ELSE 0)
           /\ pool.otherErrors = Len(call.log)
           /\ pool.otherErrorMsgs = FirstOf(call.log, 5)

\* a sixth other error was counted and left the sample of five, which does
\* not hold its text, as it was
C33_Witness ==
    /\ call.op = "run"
    /\ pool.otherErrors = 6
    /\ Len(pool.otherErrorMsgs) = 5
    /\ call.err = ErrMkdir
    /\ \A i \in 1 .. 5 : pool.otherErrorMsgs[i] = ErrDownload
    /\ pool.otherErrorMsgs = call.before.otherErrorMsgs

\* an error with status code 410 was counted as expired media, after an
\* other error
C33_WitnessExpired ==
    /\ call.op = "run"
    /\ call.err = ErrDownload
    /\ call.status = 410
    /\ pool.expiredCount = call.before.expiredCount + 1
    /\ pool.otherErrors = 1
    /\ pool.otherErrorMsgs = <<ErrMkdir>>

\* the goroutines of the pool inside processMediaJob
Processing == {i \in DOMAIN pool.run : pool.run[i].pc \in {"processMediaJob", "download"}}

MarkedKey == <<call.args.id, call.args.chatJID>>

\* the columns of a row that MarkMediaDownloaded does not set
Unmarked(row) == [row EXCEPT !.local_path = NULL, !.downloaded_at = NULLTIME]

\* C35: MarkMediaDownloaded returns no error; when the key has a row, the
\* row holds the given local path and download time afterwards, whatever it
\* held before, its other columns and the other rows are as they were, and
\* the same call once more changes nothing; when the key has no row, the
\* table is as it was.
C35_MarkIdempotentOverwriting ==
    call.op = "MarkMediaDownloaded" =>
        /\ call.err = NoErr
        /\ DOMAIN messages = DOMAIN pre.messages
        /\ \A k \in DOMAIN messages \ {MarkedKey} : messages[k] = pre.messages[k]
        /\ MarkedKey \in DOMAIN pre.messages =>
               /\ messages[MarkedKey].local_path = call.args.localPath
               /\ messages[MarkedKey].downloaded_at = call.args.downloadedAt
               /\ Unmarked(messages[MarkedKey]) = Unmarked(pre.messages[MarkedKey])
        /\ MarkMediaDownloadedRows(messages, call.args.id, call.args.chatJID,
                                   call.args.localPath, call.args.downloadedAt) = messages
        /\ prev = call => messages = pre.messages

\* the second of two equal calls, on a row that held another path and time
\* before them
C35_Witness ==
    /\ call.op = "MarkMediaDownloaded"
    /\ prev = call
    /\ call.args.localPath = PathTwo
    /\ call.args.downloadedAt = 1
    /\ messages[MarkedKey].local_path = PathTwo
    /\ messages[MarkedKey].downloaded_at = 1
    /\ messages[<<MsgM, JidB>>].local_path = NULL

\* a call overwrote the path and the time of an earlier download
C35_WitnessOverwrite ==
    /\ call.op = "MarkMediaDownloaded"
    /\ MarkedKey \in DOMAIN pre.messages
    /\ pre.messages[MarkedKey].local_path = PathOne
    /\ pre.messages[MarkedKey].downloaded_at = MaxTime
    /\ messages[MarkedKey].local_path = PathTwo
    /\ messages[MarkedKey].downloaded_at = 1

\* a call for a key without row, after a download was recorded
C35_WitnessNoRow ==
    /\ call.op = "MarkMediaDownloaded"
    /\ MarkedKey \notin DOMAIN messages
    /\ call.err = NoErr
    /\ messages = pre.messages
    /\ messages[<<MsgM, JidA>>].local_path = PathOne

\* {store-root}/media
MediaRoot == filepathJoin(StoreDir, <<"m", "e", "d", "i", "a">>)

\* a cleaned path that lies below a directory
Inside(path, dir) ==
    /\ Len(path) > Len(dir) + 1
    /\ SubSeq(path, 1, Len(dir) + 1) = dir \o <<PathSeparator>>

HasDotDot(seg) == \E i \in 1 .. (Len(seg) - 1) : seg[i] = "." /\ seg[i + 1] = "."

HasSeparator(seg) == \E i \in DOMAIN seg : seg[i] \in {"/", "\\"}

\* C36 as stated: with no output path requested, the resolved path lies
\* inside {store-root}/media whatever the chat JID, the message ID, the
\* media type and the file name are, and no sanitized segment contains a
\* path separator or two dots in a row.
C36_ResolvedInsideMedia ==
    call.op = "resolveOutputPath" =>
        /\ Inside(call.path, MediaRoot)
        /\ \A i \in DOMAIN call.segments :
               ~HasSeparator(call.segments[i]) /\ ~HasDotDot(call.segments[i])

\* what holds of the resolved path: it is the media directory or lies below
\* it, no segment contains a separator and none is the parent directory
NeverAboveMedia ==
    call.op = "resolveOutputPath" =>
        /\ call.path = MediaRoot \/ Inside(call.path, MediaRoot)
        /\ \A i \in DOMAIN call.segments :
               ~HasSeparator(call.segments[i]) /\ call.segments[i] # DotDot

\* C37: a StoreMessage for a key that has a row leaves the local_path and
\* the downloaded_at of that row as they were, whatever the call carries
\* and whatever the row held.
C37_StoreKeepsDownload ==
    (call.op = "StoreMessage" /\ MsgKey(call.args) \in DOMAIN pre.messages) =>
        /\ messages[MsgKey(call.args)].local_path
               = pre.messages[MsgKey(call.args)].local_path
        /\ messages[MsgKey(call.args)].downloaded_at
               = pre.messages[MsgKey(call.args)].downloaded_at

\* a message recorded as downloaded was stored again with other content and
\* another descriptor, and is still recorded as downloaded
C37_Witness ==
    /\ call.op = "StoreMessage"
    /\ call.err = NoErr
    /\ MsgKey(call.args) \in DOMAIN pre.messages
    /\ pre.messages[MsgKey(call.args)].local_path = PathOne
    /\ pre.messages[MsgKey(call.args)].downloaded_at = MaxTime
    /\ messages[MsgKey(call.args)] # pre.messages[MsgKey(call.args)]
    /\ messages[MsgKey(call.args)].local_path = PathOne

\* the workers inside the download of a job
Downloading == {i \in DOMAIN pool.run : pool.run[i].pc = "download"}

\* C38 as stated: whatever jobs are enqueued for one message, two workers
\* are never inside the download of the same message at the same time, and
\* the media of the message is downloaded at most once (message m of chat a
\* is the one message with media here).
C38_DownloadedAtMostOnce ==
    /\ \A i \in Downloading : \A j \in Downloading \ {i} :
           pool.run[i].job # pool.run[j].job
    /\ Downloads <= 1

\* what holds: a worker that reads the row after a download has recorded
\* its file does not download again
LookupAfterDownloadSkips ==
    [][\A i \in DOMAIN pool.run :
           (/\ pool.run[i].pc = "processMediaJob"
            /\ <<pool.run[i].job.messageID, pool.run[i].job.chatJID>> \in DOMAIN messages
            /\ messages[<<pool.run[i].job.messageID, pool.run[i].job.chatJID>>].local_path
                   \in DOMAIN files)
               => pool'.run[i].pc # "download"]_vars


\* C39: while the pool is not cancelled and every processMediaJob returns,
\* a job that Enqueue put into the channel or left with a background
\* goroutine is pulled by a worker in the end, and a pulled job is through
\* in the end
C39_EnqueuedJobsAreProcessed ==
    \A job \in FairJobs :
        /\ Queued(job) ~> InHand(job)
        /\ InHand(job) ~> (~InHand(job) /\ ~Queued(job))

\* the channel is full and a background goroutine of Enqueue holds a job
C39_Witness ==
    /\ pool.ctx = "live"
    /\ Len(pool.jobs) = pool.cap
    /\ pool.senders # <<>>
    /\ \E job \in FairJobs : InHand(job)

\* a job that waited with a background goroutine is in the hands of a worker
C39_WitnessPulled ==
    /\ prev.op = "Start"
    /\ pool.senders = <<>>
    /\ pool.jobs = <<>>
    /\ InHand([chatJID |-> JidB, messageID |-> MsgN])
    /\ InHand([chatJID |-> JidA, messageID |-> MsgM])
    /\ messages[<<MsgM, JidA>>].local_path # NULL


\* the row of a sent message is in the store as it was sent
HasItsRow(m) ==
    /\ <<m.id, m.chatJID>> \in DOMAIN messages
    /\ messages[<<m.id, m.chatJID>>].content = m.content
    /\ messages[<<m.id, m.chatJID>>].timestamp = m.timestamp

\* C40: after any two successful calls of SendMessage for one chat the two
\* messages are two rows of the store, each as it was sent
C40_EverySendAddsItsRow ==
    \A i, j \in DOMAIN Sent :
        (i < j /\ Sent[i].chatJID = Sent[j].chatJID)
            => /\ Sent[i].id # Sent[j].id
               /\ HasItsRow(Sent[i])
               /\ HasItsRow(Sent[j])

\* what the code keeps: every message sent has a row under its key, the
\* messages sent to one chat in different seconds have rows of their own,
\* and the row of the last message sent is as it was sent
SendsOfDifferentSecondsKeepTheirRows ==
    /\ \A i \in DOMAIN Sent : <<Sent[i].id, Sent[i].chatJID>> \in DOMAIN messages
    /\ \A i, j \in DOMAIN Sent :
           (i < j /\ Sent[i].chatJID = Sent[j].chatJID
                  /\ Sent[i].timestamp # Sent[j].timestamp)
               => Sent[i].id # Sent[j].id
    /\ Sent # <<>> => HasItsRow(Sent[Len(Sent)])

====
